---- MODULE Spec2Model ----
(***************************************************************************)
(* State-machine model of the good-listener cognition runtime:             *)
(*   - AudioService / DeviceListener threads  (backend/app/services/audio) *)
(*   - MemoryService pruning and queries (inference/app/services/memory)   *)
(*   - BackgroundMonitor, its screen loop and the auto-answer controller   *)
(* Each subsystem has its own next-state relation; the variables of the    *)
(* other subsystems are left unchanged by it.                              *)
(***************************************************************************)
EXTENDS Integers, Sequences, FiniteSets, TLC

(***************************************************************************)
(* Bounds of the model.                                                    *)
(***************************************************************************)
NumListeners == 2      \* device listener threads
MaxUtterances == 2     \* utterances emitted per listener
MaxTime == 2           \* ticks of the memory clock
MaxAccess == 6         \* cap on access_count
PruneThreshold == 2    \* stand-in for MEMORY_PRUNE_THRESHOLD (10000)
PruneKeep == 1         \* stand-in for MEMORY_PRUNE_KEEP (5000)
UniqScale == 2         \* uniqueness is k / UniqScale, k in 1..UniqScale
MaxBatch == 2          \* items per add_memories_batch call
MaxStarts == 2         \* calls of BackgroundMonitor.start()
MaxTranscripts == 3    \* transcripts handed to the monitor
MaxLifecycleTranscripts == 2  \* of them while start()/stop() are followed
RingCap == 2           \* stand-in for deque(maxlen=30)
MaxStable == 3         \* consecutive_stable_checks saturates here
MaxStoreCount == 2     \* screen-text writes counted per text
NumConns == 2          \* websocket connections
MaxQuestions == 3      \* auto-answer handler tasks
MaxChunks == 1         \* chunks per LLM stream
TickStep == 5          \* seconds per clock tick
MaxNow == 20           \* last clock value
MaxFed == 40           \* chunks fed to the speech detector
NumQueryThreads == 2   \* threads running query_memory
MaxQueries == 3        \* query_memory calls
MaxFiller == 10        \* filler characters in a text given to is_question
MaxRecentCalls == 2    \* get_recent_transcript calls
NumPoolThreads == 2    \* threads calling into MemoryService
PoolSize == 2          \* pool_size, default 3
AcquireTimeout == 2    \* POOL_ACQUIRE_TIMEOUT, in clock steps
MaxReadyChecks == 4    \* ready Checks
MaxCheckAlls == 2      \* check_all calls
MaxInvalidations == 1  \* invalidate_ready_cache calls
MaxHealthNow == 5      \* steps of the monotonic clock
ReadyTtl == 2          \* ready_ttl (default 30.0 s), in clock steps
MaxServiceCalls == 5   \* start_listening and stop_listening calls
NumDedupRecords == 3   \* records in the collection of a _prune_duplicates pass
MaxDedupTs == 1        \* their timestamps
MaxDedupAccess == 1    \* their access counts
MaxDedupPasses == 1    \* _prune_duplicates passes
MaxSpans == 4          \* spans entered
MaxRoots == 2          \* set_trace_context calls

(***************************************************************************)
(* Program constants.                                                      *)
(***************************************************************************)
PROTECTED_ACCESS_COUNT == 5
Cooldown == 10         \* _auto_answer_cooldown
StableThreshold == 2   \* consecutive_stable_checks >= 2
MAX_SILENCE_CHUNKS == 30  \* DeviceListener.max_silence_chunks
VadChunk == 512        \* samples per VAD chunk
SampleRate == 16000    \* DeviceListener(dev_idx, 16000, ...)
MinQuestionLength == 10   \* len(text) < 10
CallbackArgs == 1      \* self.callback(text)
HandlerParams == 2     \* def _handle_transcript(self, text: str, source: str)
SIMILARITY_THRESHOLD == 92   \* 0.92, in hundredths
DEDUP_NEIGHBOR_COUNT == 5    \* n_results of the neighbour query

VARIABLES
    \* ---- AudioService ----
    lock,        \* AudioService.lock: 0 when free, else the holding listener
    lpc,         \* per listener thread: position inside _process/_transcribe
    emitted,     \* per listener: utterances handed to transcribe_callback
    sttCalls,    \* per listener: model.transcribe calls started
    delivered,   \* transcripts passed to AudioService.callback, in order
    outcomes,    \* how the STT calls made for each listener ended, in order
    vad,         \* one DeviceListener's speech detector and what it was fed
    \* ---- MemoryService ----
    records,     \* the collection, in insertion order: [id, ts, ac]
    mnow,        \* time.time() as seen by the memory service
    mop,         \* the last memory operation and what it did
    qry,         \* per query_memory call in progress: the updates left to do
    qhits,       \* per id: query_memory calls that returned the record
    nQuery,      \* query_memory calls started
    \* ---- BackgroundMonitor ----
    running,     \* _running
    recording,   \* _is_recording
    autoEnabled, \* _auto_answer_enabled
    listening,   \* audio_service has started listeners
    starts,      \* start() calls so far; each creates task generation g
    tasks,       \* _tasks: generations whose two tasks are in the set
    tq,          \* transcript_queue: generation of the current queue, 0 = None
    queues,      \* contents of the queue object of each generation
    wpc,         \* _transcript_worker of generation g: position
    wq,          \* the queue object on whose get() worker g is suspended
    ring,        \* recent_transcripts
    nTrans,      \* transcripts handed to _handle_transcript so far
    live,        \* calls of on_transcript: how many, and the arguments of the last
    audioAdds,   \* add_memory calls made by _process_transcript
    lastAdd,     \* arguments of the last add_memory call of _process_transcript
    latestTranscript, \* latest_transcript
    stopped,     \* stop() has returned and start() was not called since
    \* ---- screen loop ----
    screen,      \* what the primary monitor shows
    latestImage, \* latest_image
    latestText,  \* latest_text
    textOf,      \* the image whose OCR produced latest_text
    spc,         \* _screen_loop of generation g: position
    cur,         \* image of the iteration whose OCR is in progress
    lastHash,    \* last_visual_hash
    stable,      \* consecutive_stable_checks
    lastStored,  \* last_stored_text
    storeCount,  \* add_memory(text, "screen") calls per text
    obs,         \* the text the last OCR call returned, and how often in a row
    rd,          \* a handler reading latest_text, then latest_image
    \* ---- auto-answer (main.py) ----
    now,         \* time.time()
    conn,        \* per websocket: "new", "open", "broken" or "closed"
    lastAuto,    \* _last_auto_answer_time
    nAuto,       \* handle_question_detected tasks created
    auto,        \* per handler task: position and what it decided and sent
    recv,        \* frames each websocket received, in order
    \* ---- is_question ----
    qin,         \* the text of the last is_question call
    qout,        \* what the call returned
    \* ---- get_recent_transcript ----
    recent,      \* the last call: its number, its argument and what it returned
    \* ---- one auto-answer fan-out, send by send ----
    fan,         \* the frames whose gather has begun, and the sends not yet over
    \* ---- AudioService.start_listening / stop_listening ----
    svc,         \* listeners, callback, listeners created and calls made so far
    \* ---- ChromaPool ----
    cp,          \* the pool (initialized flag, queue size, lock) and its callers
    \* ---- HealthServicer ----
    hs,          \* monotonic clock, readiness cache, counts of checks and checker calls
    \* ---- MemoryService._prune_duplicates ----
    dd,          \* the last pass: collection, similarities, comparisons, to_del
    \* ---- trace context (contextvars) and spans ----
    tr           \* current context, id counter, spans entered and their parents

audioVars == <<lock, lpc, emitted, sttCalls, delivered, outcomes, vad>>
memVars == <<records, mnow, mop, qry, qhits, nQuery>>
monVars == <<running, recording, autoEnabled, listening, starts, tasks, tq,
             queues, wpc, wq, ring, nTrans, live, audioAdds, lastAdd, latestTranscript, stopped>>
screenVars == <<screen, latestImage, latestText, textOf, spc, cur, lastHash,
                stable, lastStored, storeCount, obs, rd>>
autoVars == <<now, conn, lastAuto, nAuto, auto, recv>>
vars == <<lock, lpc, emitted, sttCalls, delivered, outcomes, vad, records, mnow, mop,
          qry, qhits, nQuery,
          running, recording, autoEnabled, listening, starts, tasks, tq,
          queues, wpc, wq, ring, nTrans, live, audioAdds, lastAdd, latestTranscript, stopped,
          screen, latestImage, latestText, textOf, spc, cur, lastHash,
          stable, lastStored, storeCount, obs, rd,
          now, conn, lastAuto, nAuto, auto, recv, qin, qout, recent, fan, svc, cp, hs,
          dd, tr>>
questionVars == <<qin, qout>>
sideVars == <<questionVars, recent, fan, svc, cp, hs, dd, tr>>
appVars == <<monVars, screenVars, autoVars, sideVars>>

Listeners == 1..NumListeners

Max2(a, b) == IF a >= b THEN a ELSE b

(***************************************************************************)
(* AudioService (src/backend/app/services/audio.py)                        *)
(***************************************************************************)
SttOutcomes == {"text", "empty", "raise"}

InitAudio ==
    /\ lock = 0
    /\ lpc = [l \in Listeners |-> "listen"]
    /\ emitted = [l \in Listeners |-> 0]
    /\ sttCalls = [l \in Listeners |-> 0]
    /\ delivered = <<>>
    /\ outcomes = [l \in Listeners |-> <<>>]

\* DeviceListener._process reaches the end of a speaking episode and calls
\* transcribe_callback, i.e. AudioService._transcribe, on its own thread.
EmitUtterance(l) ==
    /\ lpc[l] = "listen"
    /\ emitted[l] < MaxUtterances
    /\ emitted' = [emitted EXCEPT ![l] = @ + 1]
    /\ lpc' = [lpc EXCEPT ![l] = "acquire"]
    /\ UNCHANGED <<lock, sttCalls, delivered, outcomes>>

\* `with self.lock:` may be entered only when no thread holds the lock.
LockAvailableUnguarded == TRUE
LockAvailable == lock = 0

AcquireLock(l) ==
    /\ lpc[l] = "acquire"
    /\ LockAvailable
    /\ lock' = l
    /\ lpc' = [lpc EXCEPT ![l] = "locked"]
    /\ UNCHANGED <<emitted, sttCalls, delivered, outcomes>>

\* self.model.transcribe(audio_data, beam_size=5) is entered.
SttBegin(l) ==
    /\ lpc[l] = "locked"
    /\ sttCalls' = [sttCalls EXCEPT ![l] = @ + 1]
    /\ lpc' = [lpc EXCEPT ![l] = "stt"]
    /\ UNCHANGED <<lock, emitted, delivered, outcomes>>

\* `if text and self.callback:`, reached only when transcribe did not raise
CallsBackUnlessRaised(outcome) == outcome # "raise"
CallsBack(outcome) == outcome = "text"

\* The STT call returns text, returns nothing, or raises; the callback runs
\* inside the lock, the exception is swallowed, and the lock is released.
SttEnd(l, outcome) ==
    /\ lpc[l] = "stt"
    /\ delivered' = IF CallsBack(outcome)
                    THEN Append(delivered, <<l, emitted[l]>>)
                    ELSE delivered
    /\ outcomes' = [outcomes EXCEPT ![l] = Append(@, outcome)]
    /\ lock' = 0
    /\ lpc' = [lpc EXCEPT ![l] = "listen"]
    /\ UNCHANGED <<emitted, sttCalls>>

NextAudio ==
    \/ \E l \in Listeners : EmitUtterance(l) /\ UNCHANGED <<vad, memVars, appVars>>
    \/ \E l \in Listeners : AcquireLock(l) /\ UNCHANGED <<vad, memVars, appVars>>
    \/ \E l \in Listeners : SttBegin(l) /\ UNCHANGED <<vad, memVars, appVars>>
    \/ \E l \in Listeners, o \in SttOutcomes : SttEnd(l, o) /\ UNCHANGED <<vad, memVars, appVars>>

(***************************************************************************)
(* DeviceListener._process: voice activity detection (audio.py)            *)
(***************************************************************************)
\* A 512-sample chunk is speech when speech_prob > vad_threshold.
VadInputs == {"speech", "silence"}

InitVad ==
    vad = [speaking |-> FALSE,   \* is_speaking
           silence |-> 0,        \* silence_chunks
           buf |-> 0,            \* chunks in speech_buffer
           voiced |-> 0,         \* of them, chunks that were speech
           utterances |-> <<>>,  \* what transcribe_callback was called with
           fed |-> 0,            \* chunks processed so far
           his |-> 0,            \* the input so far is `his` speech chunks
           los |-> 0,            \* followed by `los` silence chunks,
           shaped |-> TRUE]      \* as long as shaped holds

\* self.silence_chunks > self.max_silence_chunks
SilenceEndsEpisode(n) == n > MAX_SILENCE_CHUNKS

\* len(self.speech_buffer) > self.sample_rate * 0.5
LongEnoughToEmit(chunks) == chunks * VadChunk * 2 > SampleRate

\* The shape of the input after one more chunk.
FedShape(p) ==
    IF ~vad.shaped \/ (p = "speech" /\ vad.los > 0)
    THEN [his |-> 0, los |-> 0, shaped |-> FALSE]
    ELSE IF p = "speech"
    THEN [his |-> vad.his + 1, los |-> 0, shaped |-> TRUE]
    ELSE [his |-> vad.his, los |-> vad.los + 1, shaped |-> TRUE]

\* One pass of the `while len(self.vad_buffer) >= 512` loop of _process.
ProcessChunk(p) ==
    /\ vad.fed < MaxFed
    /\ LET sh == FedShape(p)
           base == [vad EXCEPT !.fed = @ + 1, !.his = sh.his, !.los = sh.los,
                               !.shaped = sh.shaped]
       IN  vad' =
             IF p = "speech"
             THEN [base EXCEPT !.speaking = TRUE, !.silence = 0,
                               !.buf = @ + 1, !.voiced = @ + 1]
             ELSE IF vad.speaking
             THEN IF SilenceEndsEpisode(vad.silence + 1)
                  THEN [base EXCEPT
                          !.speaking = FALSE,
                          !.silence = vad.silence + 1,
                          !.buf = 0,
                          !.voiced = 0,
                          !.utterances =
                             IF LongEnoughToEmit(vad.buf + 1)
                             THEN Append(@, [samples |-> (vad.buf + 1) * VadChunk,
                                             voiced |-> vad.voiced * VadChunk])
                             ELSE @]
                  ELSE [base EXCEPT !.silence = @ + 1, !.buf = @ + 1]
             ELSE base
    /\ UNCHANGED <<lock, lpc, emitted, sttCalls, delivered, outcomes>>

NextVad ==
    \E p \in VadInputs : ProcessChunk(p) /\ UNCHANGED <<memVars, appVars>>

(***************************************************************************)
(* MemoryService (src/backend/inference/app/services/memory/service.py)    *)
(***************************************************************************)
Sources == {"audio"}
NoOp == [kind |-> "none", pruned |-> FALSE, keep |-> 0, ndel |-> 0,
         dup |-> FALSE, uq |-> <<>>]

\* gRPC worker threads that may run query_memory at the same time.
QThreads == 1..NumQueryThreads
\* The ids add_memory can give on thread 1.
QueryIds == {<<src, t, 1, -1>> : src \in Sources, t \in 0..MaxTime}
NoQuery == [pc |-> "idle", todo |-> <<>>, got |-> {}]

InitMemory ==
    /\ records = <<>>
    /\ mnow = 0
    /\ mop = NoOp
    /\ qry = [t \in QThreads |-> NoQuery]
    /\ qhits = [id \in QueryIds |-> 0]
    /\ nQuery = 0

Ids(recs) == {recs[i].id : i \in 1..Len(recs)}

\* access_count >= self.PROTECTED_ACCESS_COUNT
IsProtectedStrict(ac) == ac > PROTECTED_ACCESS_COUNT
IsProtected(ac) == ac >= PROTECTED_ACCESS_COUNT

NumProtected(recs) == Cardinality({i \in 1..Len(recs) : IsProtected(recs[i].ac)})

MinTs(recs) == CHOOSE t \in {recs[i].ts : i \in 1..Len(recs)} :
                   \A i \in 1..Len(recs) : t <= recs[i].ts
MaxAc(recs) == CHOOSE a \in {recs[i].ac : i \in 1..Len(recs)} :
                   \A i \in 1..Len(recs) : a >= recs[i].ac

\* _compute_importance, scaled by 4 * RD * AD * UniqScale so that it stays in
\* the integers: recency = RN/RD, access = AN/AD, uniqueness = uq/UniqScale.
ComputeImportance(ts, ac, uq, tnow, maxAge, maxAccess) ==
    LET RN == IF maxAge > 0 THEN maxAge - (tnow - ts) ELSE 1
        RD == IF maxAge > 0 THEN maxAge ELSE 1
        AN == IF maxAccess > 0 THEN ac ELSE 0
        AD == IF maxAccess > 0 THEN maxAccess ELSE 1
    IN  RN * AD * UniqScale + 2 * AN * RD * UniqScale + uq * RD * AD

\* key=lambda x: x[1], ascending
ScoreAbove(a, b) == a.score > b.score
ScoreBelow(a, b) == a.score < b.score

\* sorted(..., key=score): stable insertion of x into an ascending sequence.
RECURSIVE InsertSorted(_, _)
InsertSorted(x, s) ==
    IF s = <<>> THEN <<x>>
    ELSE IF ScoreBelow(x, Head(s)) THEN <<x>> \o s
    ELSE <<Head(s)>> \o InsertSorted(x, Tail(s))

RECURSIVE SortedByScore(_)
SortedByScore(s) ==
    IF s = <<>> THEN <<>>
    ELSE InsertSorted(s[Len(s)], SortedByScore(SubSeq(s, 1, Len(s) - 1)))

RECURSIVE FilterSeq(_, _)
FilterSeq(s, keepIds) ==
    IF s = <<>> THEN <<>>
    ELSE IF Head(s).id \in keepIds THEN <<Head(s)>> \o FilterSeq(Tail(s), keepIds)
    ELSE FilterSeq(Tail(s), keepIds)

\* A slice that is one short: pruneable[:len(ids) - keep - 1].
ToDeleteOneShort(recs, uq, tnow, keep) ==
    LET maxAge == tnow - MinTs(recs)
        maxAccess == MaxAc(recs)
        scored == [i \in 1..Len(recs) |->
                     [id |-> recs[i].id,
                      score |-> ComputeImportance(recs[i].ts, recs[i].ac, uq[i],
                                                  tnow, maxAge, maxAccess),
                      prot |-> IsProtected(recs[i].ac)]]
        pruneable == SortedByScore(
                        FilterSeq(scored, {scored[i].id : i \in
                                    {j \in 1..Len(recs) : ~scored[j].prot}}))
        want == Len(recs) - keep - 1
        cut == IF want <= Len(pruneable) THEN want ELSE Len(pruneable)
    IN  {pruneable[i].id : i \in 1..cut}

\* The ids _prune_smart passes to collection.delete: it scores every record,
\* keeps the unprotected ones sorted by ascending score and takes the first
\* len(ids) - keep of them.
ToDelete(recs, uq, tnow, keep) ==
    LET maxAge == tnow - MinTs(recs)
        maxAccess == MaxAc(recs)
        scored == [i \in 1..Len(recs) |->
                     [id |-> recs[i].id,
                      score |-> ComputeImportance(recs[i].ts, recs[i].ac, uq[i],
                                                  tnow, maxAge, maxAccess),
                      prot |-> IsProtected(recs[i].ac)]]
        pruneable == SortedByScore(
                        FilterSeq(scored, {scored[i].id : i \in
                                    {j \in 1..Len(recs) : ~scored[j].prot}}))
        cut == IF Len(recs) - keep <= Len(pruneable)
               THEN Len(recs) - keep ELSE Len(pruneable)
    IN  {pruneable[i].id : i \in 1..cut}

\* The collection after _prune_smart(keep); uq is the uniqueness that the
\* vector store's neighbour distances give each record.
PruneSmart(recs, uq, tnow, keep) ==
    IF Len(recs) <= keep THEN recs
    ELSE FilterSeq(recs, Ids(recs) \ ToDelete(recs, uq, tnow, keep))

UniqChoices(n) == [1..n -> 1..UniqScale]

\* collection.add followed by `if collection.count() > MEMORY_PRUNE_THRESHOLD:
\* self._prune_smart()`, shared by add_memory and add_memories_batch.
\* newIds are the ids the call computed for its non-blank items.
AddAndPrune(kind, added, newIds) ==
    LET prune == Len(added) > PruneThreshold
    IN  \E uq \in UniqChoices(Len(added)) :
          /\ ~prune => \A i \in 1..Len(added) : uq[i] = 1
          /\ records' = IF prune THEN PruneSmart(added, uq, mnow, PruneKeep)
                        ELSE added
          /\ mop' = [kind |-> kind, pruned |-> prune, keep |-> PruneKeep,
                     ndel |-> Len(added) - Len(records'),
                     dup |-> newIds \cap Ids(records) # {}, uq |-> <<>>]
          /\ UNCHANGED <<mnow, qry, qhits, nQuery>>

\* add_memory(text, source): blank text is rejected; the id is
\* "{source}_{ms}_{thread}", and an id the collection already holds adds
\* nothing.
AddMemory(src, tid, blank) ==
    LET id == <<src, mnow, tid, -1>>
    IN  AddAndPrune("add",
                    IF blank \/ id \in Ids(records) THEN records
                    ELSE Append(records, [id |-> id, ts |-> mnow, ac |-> 0]),
                    IF blank THEN {} ELSE {id})

\* add_memories_batch(items): blanks[i] tells whether item i is blank; the
\* others get the ids "{src}_{ms}_{tid}_{i}" and are added in one call,
\* which adds nothing when one of the ids is already held.
RECURSIVE BatchEntries(_, _, _, _)
BatchEntries(src, tid, blanks, i) ==
    IF i > Len(blanks) THEN <<>>
    ELSE (IF blanks[i] THEN <<>>
          ELSE <<[id |-> <<src, mnow, tid, i - 1>>, ts |-> mnow, ac |-> 0]>>)
         \o BatchEntries(src, tid, blanks, i + 1)

AddMemoriesBatch(src, tid, blanks) ==
    LET entries == BatchEntries(src, tid, blanks, 1)
    IN  AddAndPrune("batch",
                    IF Ids(entries) \cap Ids(records) # {} THEN records
                    ELSE records \o entries,
                    Ids(entries))

\* A direct _prune_smart(keep) call.
PruneSmartCall(keep) ==
    \E uq \in UniqChoices(Len(records)) :
      /\ Len(records) <= keep => \A i \in 1..Len(records) : uq[i] = 1
      /\ records' = PruneSmart(records, uq, mnow, keep)
      /\ mop' = [kind |-> "prune", pruned |-> Len(records) > keep,
                 keep |-> keep, ndel |-> Len(records) - Len(records'),
                 dup |-> FALSE, uq |-> uq]
      /\ UNCHANGED <<mnow, qry, qhits, nQuery>>

\* query_memory: every returned record gets access_count + 1.
QueryMemory(hit) ==
    /\ hit # {}
    /\ \A i \in hit : records[i].ac < MaxAccess
    /\ records' = [i \in 1..Len(records) |->
                     IF i \in hit THEN [records[i] EXCEPT !.ac = @ + 1]
                     ELSE records[i]]
    /\ mop' = [NoOp EXCEPT !.kind = "query"]
    /\ UNCHANGED <<mnow, qry, qhits, nQuery>>

\* query_memory on thread t up to the end of collection.query: the ids and
\* the metadata of the returned records are in res.
RECURSIVE ReadHits(_, _)
ReadHits(recs, hit) ==
    IF recs = <<>> THEN <<>>
    ELSE (IF Len(recs) \in hit
          THEN ReadHits(SubSeq(recs, 1, Len(recs) - 1), hit)
                  \o <<[id |-> recs[Len(recs)].id, ac |-> recs[Len(recs)].ac]>>
          ELSE ReadHits(SubSeq(recs, 1, Len(recs) - 1), hit))

QueryBegin(t, hit) ==
    /\ qry[t].pc = "idle"
    /\ nQuery < MaxQueries
    /\ hit # {}
    /\ nQuery' = nQuery + 1
    /\ qry' = [qry EXCEPT ![t] = [pc |-> "update",
                                  todo |-> ReadHits(records, hit),
                                  got |-> {records[i].id : i \in hit}]]
    /\ mop' = [NoOp EXCEPT !.kind = "query"]
    /\ UNCHANGED <<records, mnow, qhits>>

\* The metadata collection.update writes for one returned record: the
\* metadata read by the query with access_count + 1.
UpdatedCount(rec, read) == read.ac + 1

\* One collection.update of the loop over the returned records; after the
\* last one the call returns its documents.
QueryUpdate(t) ==
    /\ qry[t].pc = "update"
    /\ LET read == Head(qry[t].todo)
           rest == Tail(qry[t].todo)
       IN  /\ records' = [i \in 1..Len(records) |->
                            IF records[i].id = read.id
                            THEN [records[i] EXCEPT
                                     !.ac = UpdatedCount(records[i], read)]
                            ELSE records[i]]
           /\ IF rest = <<>>
              THEN /\ qry' = [qry EXCEPT ![t] = NoQuery]
                   /\ qhits' = [id \in QueryIds |->
                                  IF id \in qry[t].got THEN qhits[id] + 1
                                  ELSE qhits[id]]
              ELSE /\ qry' = [qry EXCEPT ![t].todo = rest]
                   /\ UNCHANGED qhits
    /\ mop' = [NoOp EXCEPT !.kind = "query"]
    /\ UNCHANGED <<mnow, nQuery>>

\* time.time() advances.
MemTick ==
    /\ mnow < MaxTime
    /\ mnow' = mnow + 1
    /\ mop' = NoOp
    /\ UNCHANGED <<records, qry, qhits, nQuery>>

BatchInputs == UNION {[1..n -> BOOLEAN] : n \in 1..MaxBatch}

NextMemory ==
    \/ \E src \in Sources, blank \in BOOLEAN :
          AddMemory(src, 1, blank) /\ UNCHANGED <<audioVars, appVars>>
    \/ \E src \in Sources, blanks \in BatchInputs :
          AddMemoriesBatch(src, 1, blanks) /\ UNCHANGED <<audioVars, appVars>>
    \/ \E keep \in 0..PruneKeep : PruneSmartCall(keep) /\ UNCHANGED <<audioVars, appVars>>
    \/ \E hit \in SUBSET (1..Len(records)) :
          QueryMemory(hit) /\ UNCHANGED <<audioVars, appVars>>
    \/ MemTick /\ UNCHANGED <<audioVars, appVars>>

\* Concurrent query_memory calls on a collection below the prune threshold.
NextQuery ==
    \/ \E src \in Sources :
          /\ Len(records) < PruneThreshold
          /\ AddMemory(src, 1, FALSE)
          /\ UNCHANGED <<audioVars, appVars>>
    \/ MemTick /\ UNCHANGED <<audioVars, appVars>>
    \/ \E t \in QThreads, hit \in SUBSET (1..Len(records)) :
          QueryBegin(t, hit) /\ UNCHANGED <<audioVars, appVars>>
    \/ \E t \in QThreads : QueryUpdate(t) /\ UNCHANGED <<audioVars, appVars>>

(***************************************************************************)
(* Auto-answer controller and websocket surface (src/backend/app/main.py)  *)
(***************************************************************************)
Conns == 1..NumConns
Questions == 1..MaxQuestions

\* active_connections: the accepted websockets not yet removed by their
\* handler; a "broken" one has lost its peer, so sends to it raise.
Subs == {c \in Conns : conn[c] \in {"open", "broken"}}

NoTask == [pc |-> "none", at |-> 0, prev |-> 0, hadSubs |-> FALSE,
           n |-> 0, sent |-> <<>>]

InitAuto ==
    /\ now = Cooldown
    /\ conn = [c \in Conns |-> "new"]
    /\ lastAuto = 0
    /\ nAuto = 0
    /\ auto = [q \in Questions |-> NoTask]
    /\ recv = [c \in Conns |-> <<>>]

\* websocket_endpoint: accept() and active_connections.append(websocket).
Connect(c) ==
    /\ conn[c] = "new"
    /\ conn' = [conn EXCEPT ![c] = "open"]
    /\ UNCHANGED <<now, lastAuto, nAuto, auto, recv>>

\* The peer goes away; the handler has not yet seen WebSocketDisconnect.
PeerLost(c) ==
    /\ conn[c] = "open"
    /\ conn' = [conn EXCEPT ![c] = "broken"]
    /\ UNCHANGED <<now, lastAuto, nAuto, auto, recv>>

\* websocket_endpoint: receive_text raises, active_connections.remove.
Disconnect(c) ==
    /\ conn[c] \in {"open", "broken"}
    /\ conn' = [conn EXCEPT ![c] = "closed"]
    /\ UNCHANGED <<now, lastAuto, nAuto, auto, recv>>

\* time.time() advances.
Tick ==
    /\ now + TickStep <= MaxNow
    /\ now' = now + TickStep
    /\ UNCHANGED <<conn, lastAuto, nAuto, auto, recv>>

\* asyncio.gather(*[c.send_text(payload) for c in active_connections],
\* return_exceptions=True): the frame reaches every open websocket of the
\* list; a send to a broken one raises and the exception is dropped.
Broadcast(frame) ==
    [c \in Conns |-> IF conn[c] = "open" THEN Append(recv[c], frame)
                     ELSE recv[c]]

\* The auto-answer tasks after create_task(self.on_question_detected(text)).
SpawnedAuto == [auto EXCEPT ![nAuto + 1] = [NoTask EXCEPT !.pc = "spawned"]]

\* monitor.py:121 seen from the controller: a question was detected.
QuestionDetected ==
    /\ nAuto < MaxQuestions
    /\ nAuto' = nAuto + 1
    /\ auto' = SpawnedAuto
    /\ UNCHANGED <<now, conn, lastAuto, recv>>

\* now - _last_auto_answer_time < _auto_answer_cooldown
CooldownActiveInclusive(t) == t - lastAuto <= Cooldown
CooldownActive(t) == t - lastAuto < Cooldown

\* _last_auto_answer_time after the two early returns of
\* handle_question_detected: untouched without subscribers and in cooldown.
NextLastAutoBeforeSubsCheck(hasSubs, t) ==
    IF CooldownActive(t) THEN lastAuto ELSE t
NextLastAuto(hasSubs, t) ==
    IF ~hasSubs \/ CooldownActive(t) THEN lastAuto ELSE t

\* AutoAnswerStartPayload / AutoAnswerChunkPayload / AutoAnswerDonePayload
StartFrame == "auto_start"
ChunkFrame == "auto_chunk"
DoneFrameCopiedFromStart == "auto_start"
DoneFrame == "auto_done"

\* handle_question_detected from its entry to the first await: the two early
\* returns, the timestamp update and the auto_start fan-out.  Tasks run in
\* the order they were created.
AutoBegin(q) ==
    /\ auto[q].pc = "spawned"
    /\ \A p \in 1..(q - 1) : auto[p].pc # "spawned"
    /\ LET hasSubs == Subs # {}
           fire == hasSubs /\ ~CooldownActive(now)
       IN  /\ lastAuto' = NextLastAuto(hasSubs, now)
           /\ auto' = [auto EXCEPT ![q] =
                         [pc |-> IF fire THEN "stream" ELSE "skipped",
                          at |-> now, prev |-> lastAuto, hadSubs |-> hasSubs,
                          n |-> 0,
                          sent |-> IF fire THEN <<StartFrame>> ELSE <<>>]]
           /\ recv' = IF fire THEN Broadcast(<<q, StartFrame>>) ELSE recv
    /\ UNCHANGED <<now, conn, nAuto>>

\* One `async for chunk in llm_service.analyze(...)` iteration: the chunk is
\* fanned out if there is any subscriber.
AutoChunk(q) ==
    /\ auto[q].pc = "stream"
    /\ auto[q].n < MaxChunks
    /\ auto' = [auto EXCEPT ![q].n = @ + 1,
                            ![q].sent = IF Subs # {} THEN Append(@, ChunkFrame)
                                        ELSE @]
    /\ recv' = IF Subs # {} THEN Broadcast(<<q, ChunkFrame>>) ELSE recv
    /\ UNCHANGED <<now, conn, lastAuto, nAuto>>

\* The stream ends: the done frame is fanned out.
AutoEnd(q) ==
    /\ auto[q].pc = "stream"
    /\ auto' = [auto EXCEPT ![q].pc = "done", ![q].sent = Append(@, DoneFrame)]
    /\ recv' = Broadcast(<<q, DoneFrame>>)
    /\ UNCHANGED <<now, conn, lastAuto, nAuto>>

\* llm_service.analyze raises (LLMError): nothing in the handler catches it,
\* the exception ends the task.
AutoFail(q) ==
    /\ auto[q].pc = "stream"
    /\ auto' = [auto EXCEPT ![q].pc = "failed"]
    /\ UNCHANGED <<now, conn, lastAuto, nAuto, recv>>

NextAuto ==
    \/ \E c \in Conns : Connect(c) /\ UNCHANGED <<sideVars, audioVars, memVars, monVars, screenVars>>
    \/ \E c \in Conns : PeerLost(c) /\ UNCHANGED <<sideVars, audioVars, memVars, monVars, screenVars>>
    \/ \E c \in Conns : Disconnect(c) /\ UNCHANGED <<sideVars, audioVars, memVars, monVars, screenVars>>
    \/ Tick /\ UNCHANGED <<sideVars, audioVars, memVars, monVars, screenVars>>
    \/ QuestionDetected /\ UNCHANGED <<sideVars, audioVars, memVars, monVars, screenVars>>
    \/ \E q \in Questions : AutoBegin(q) /\ UNCHANGED <<sideVars, audioVars, memVars, monVars, screenVars>>
    \/ \E q \in Questions : AutoChunk(q) /\ UNCHANGED <<sideVars, audioVars, memVars, monVars, screenVars>>
    \/ \E q \in Questions : AutoEnd(q) /\ UNCHANGED <<sideVars, audioVars, memVars, monVars, screenVars>>
    \/ \E q \in Questions : AutoFail(q) /\ UNCHANGED <<sideVars, audioVars, memVars, monVars, screenVars>>

(***************************************************************************)
(* BackgroundMonitor (src/backend/app/services/monitor.py)                 *)
(***************************************************************************)
Gens == 1..MaxStarts
TSources == {"system", "user"}
\* A transcript, as far as the dispatcher looks at it: its source, whether
\* is_question(text) holds and whether it has at least 4 words.
Items == [src : TSources, question : BOOLEAN, words4 : BOOLEAN]
NoItem == [src |-> "none", question |-> FALSE, words4 |-> FALSE]

Images == {"a1", "a2", "b1", "b2"}
\* What the OCR engine reads off an image: a1 and a2 differ visually and
\* carry the same text, and so do b1 and b2.
OcrText(img) == IF img \in {"b1", "b2"} THEN "tB" ELSE "tA"
Texts == {"tA", "tB", ""}
\* len(text) > 50: the two screen texts are long, the empty text is not.
LongEnough(text) == text # ""
NoAdd == [text |-> <<>>, source |-> "none"]
NoRead == [pc |-> "idle", who |-> "none", txtOf |-> "none", img |-> "none"]

InitMonitor ==
    /\ running = FALSE
    /\ recording = TRUE
    /\ autoEnabled = TRUE
    /\ listening = FALSE
    /\ starts = 0
    /\ tasks = {}
    /\ tq = 0
    /\ queues = [g \in Gens |-> <<>>]
    /\ wpc = [g \in Gens |-> "none"]
    /\ wq = [g \in Gens |-> 0]
    /\ ring = <<>>
    /\ nTrans = 0
    /\ live = [n |-> 0, last |-> NoItem]
    /\ audioAdds = 0
    /\ lastAdd = NoAdd
    /\ latestTranscript = NoItem
    /\ stopped = FALSE

InitScreen ==
    /\ screen = "a1"
    /\ latestImage = "none"
    /\ latestText = ""
    /\ textOf = "none"
    /\ spc = [g \in Gens |-> "none"]
    /\ cur = [g \in Gens |-> "none"]
    /\ lastHash = [g \in Gens |-> "none"]
    /\ stable = [g \in Gens |-> 0]
    /\ lastStored = [g \in Gens |-> ""]
    /\ storeCount = [t \in Texts |-> 0]
    /\ obs = [text |-> "", run |-> 0]
    /\ rd = NoRead

\* start(): no guard on _running; a new Queue replaces transcript_queue and
\* two new tasks are added to _tasks.  start_listening is a no-op when the
\* audio service already has listeners.
Start ==
    /\ starts < MaxStarts
    /\ LET g == starts + 1
       IN  /\ running' = TRUE
           /\ starts' = g
           /\ tq' = g
           /\ tasks' = tasks \cup {g}
           /\ spc' = [spc EXCEPT ![g] = "ready"]
           /\ wpc' = [wpc EXCEPT ![g] = "ready"]
           /\ listening' = TRUE
           /\ stopped' = FALSE
    /\ UNCHANGED <<recording, autoEnabled, queues, wq, ring, nTrans, live,
                   audioAdds, lastAdd, latestTranscript>>
    /\ UNCHANGED <<screen, latestImage, latestText, textOf, cur, lastHash,
                   stable, lastStored, storeCount, obs, rd>>
    /\ UNCHANGED autoVars

\* stop(): _running = False, stop_listening(), cancel and await every task
\* of _tasks, clear the set.  A cancelled task is suspended at an await (or
\* has not run yet) and ends there: CancelledError ends the screen loop and
\* makes the worker break.  The await of gather lets the event loop run the
\* steps scheduled before the cancellations first, so an auto-answer task
\* created earlier has run to its first await when stop() returns.
Stop ==
    /\ \A q \in Questions : auto[q].pc # "spawned"
    /\ running' = FALSE
    /\ listening' = FALSE
    /\ spc' = [g \in Gens |-> IF g \in tasks THEN "done" ELSE spc[g]]
    /\ wpc' = [g \in Gens |-> IF g \in tasks THEN "done" ELSE wpc[g]]
    /\ tasks' = {}
    /\ stopped' = TRUE
    /\ UNCHANGED <<recording, autoEnabled, starts, tq, queues, wq, ring,
                   nTrans, live, audioAdds, lastAdd, latestTranscript>>
    /\ UNCHANGED <<screen, latestImage, latestText, textOf, cur, lastHash,
                   stable, lastStored, storeCount, obs, rd>>
    /\ UNCHANGED autoVars

\* monitor.on_transcript = broadcast_transcript, assigned before start()
OnTranscriptSet == TRUE

\* `if not self._running: return`, then `if self.on_transcript:`
BroadcastsLiveIfRecording == running /\ OnTranscriptSet /\ recording
BroadcastsLive == running /\ OnTranscriptSet

\* _handle_transcript(text, source), called on a listener thread: dropped
\* when not running, else on_transcript(text, source) is called and handed
\* to the event loop, and the item is put on the current queue through the
\* event loop.
HandleTranscript(item) ==
    /\ starts > 0
    /\ nTrans < MaxTranscripts
    /\ nTrans' = nTrans + 1
    /\ live' = IF BroadcastsLive
               THEN [n |-> live.n + 1, last |-> item]
               ELSE live
    /\ queues' = IF running THEN [queues EXCEPT ![tq] = Append(@, item)]
                 ELSE queues
    /\ UNCHANGED <<running, recording, autoEnabled, listening, starts, tasks,
                   tq, wpc, wq, ring, audioAdds, lastAdd, latestTranscript, stopped>>
    /\ UNCHANGED <<screenVars, autoVars>>

\* recent_transcripts.append on a deque(maxlen=RingCap)
RingAppendDropNewest(r, e) ==
    IF Len(r) < RingCap THEN Append(r, e) ELSE r
RingAppend(r, e) ==
    IF Len(r) < RingCap THEN Append(r, e) ELSE Append(Tail(r), e)

\* self._auto_answer_enabled and source == "system" and is_question(text)
TriggersAutoAnswerAnySource(item) ==
    autoEnabled /\ item.question
TriggersAutoAnswer(item) ==
    autoEnabled /\ item.src = "system" /\ item.question

\* source.upper()
Upper(src) == IF src = "system" THEN "SYSTEM"
              ELSE IF src = "user" THEN "USER" ELSE src

\* f"{source.upper()}: {text}": the prefix and the transcript it is put before.
FormatTranscript(item) == <<Upper(item.src), ": ", item>>

\* self._is_recording and len(text.split()) >= 4
StoresTranscriptAlways(item) == item.words4
StoresTranscript(item) == recording /\ item.words4

\* _process_transcript(item): latest_transcript, the ring, the memory write
\* and the auto-answer task.
ProcessTranscript(item) ==
    /\ latestTranscript' = item
    /\ ring' = RingAppend(ring, [t |-> now, item |-> item])
    /\ audioAdds' = IF StoresTranscript(item) THEN audioAdds + 1
                    ELSE audioAdds
    /\ lastAdd' = IF StoresTranscript(item)
                  THEN [text |-> FormatTranscript(item), source |-> "audio"]
                  ELSE lastAdd
    /\ IF TriggersAutoAnswer(item)
       THEN /\ nAuto < MaxQuestions
            /\ nAuto' = nAuto + 1
            /\ auto' = SpawnedAuto
       ELSE UNCHANGED <<nAuto, auto>>
    /\ UNCHANGED <<now, conn, lastAuto, recv>>

\* set_recording(active)
SetRecording(b) ==
    /\ recording # b
    /\ recording' = b
    /\ UNCHANGED <<running, autoEnabled, listening, starts, tasks, tq, queues,
                   wpc, wq, ring, nTrans, live, audioAdds, lastAdd, latestTranscript,
                   stopped>>
    /\ UNCHANGED <<screenVars, autoVars>>

\* set_auto_answer(enabled)
SetAutoAnswer(b) ==
    /\ autoEnabled # b
    /\ autoEnabled' = b
    /\ UNCHANGED <<running, recording, listening, starts, tasks, tq, queues,
                   wpc, wq, ring, nTrans, live, audioAdds, lastAdd, latestTranscript,
                   stopped>>
    /\ UNCHANGED <<screenVars, autoVars>>

\* _transcript_worker at the top of its loop: it ends when _running is
\* false, suspends in get() on the current queue when that is empty, and
\* else takes the next item and processes it.
WorkerStep(g) ==
    /\ wpc[g] = "ready"
    /\ IF ~running
       THEN /\ wpc' = [wpc EXCEPT ![g] = "done"]
            /\ UNCHANGED <<wq, queues, ring, audioAdds, lastAdd, latestTranscript,
                           autoVars>>
       ELSE IF queues[tq] = <<>>
       THEN /\ wpc' = [wpc EXCEPT ![g] = "get"]
            /\ wq' = [wq EXCEPT ![g] = tq]
            /\ UNCHANGED <<queues, ring, audioAdds, lastAdd, latestTranscript,
                           autoVars>>
       ELSE /\ ProcessTranscript(Head(queues[tq]))
            /\ queues' = [queues EXCEPT ![tq] = Tail(@)]
            /\ UNCHANGED <<wpc, wq>>
    /\ UNCHANGED <<running, recording, autoEnabled, listening, starts, tasks,
                   tq, nTrans, live, stopped>>
    /\ UNCHANGED screenVars

\* The worker resumes inside get() of the queue object it suspended on.
WorkerWake(g) ==
    /\ wpc[g] = "get"
    /\ queues[wq[g]] # <<>>
    /\ ProcessTranscript(Head(queues[wq[g]]))
    /\ queues' = [queues EXCEPT ![wq[g]] = Tail(@)]
    /\ wpc' = [wpc EXCEPT ![g] = "ready"]
    /\ UNCHANGED <<running, recording, autoEnabled, listening, starts, tasks,
                   tq, wq, nTrans, live, stopped>>
    /\ UNCHANGED screenVars

\* _process_transcript raises in the worker: the memory write it makes for a
\* storable item fails after latest_transcript and the ring were updated;
\* the worker is in its `except Exception` handler.
WorkerRaise(g) ==
    /\ running
    /\ wpc[g] \in {"ready", "get"}
    /\ LET qi == IF wpc[g] = "ready" THEN tq ELSE wq[g]
       IN  /\ queues[qi] # <<>>
           /\ StoresTranscript(Head(queues[qi]))
           /\ latestTranscript' = Head(queues[qi])
           /\ ring' = RingAppend(ring, [t |-> now, item |-> Head(queues[qi])])
           /\ queues' = [queues EXCEPT ![qi] = Tail(@)]
    /\ wpc' = [wpc EXCEPT ![g] = "caught"]
    /\ UNCHANGED <<running, recording, autoEnabled, listening, starts, tasks,
                   tq, wq, nTrans, live, audioAdds, lastAdd, stopped>>
    /\ UNCHANGED <<screenVars, autoVars>>

\* except Exception: the error is logged and the loop goes on;
\* except asyncio.CancelledError: break.
WorkerAfterErrorBreaks == "done"
WorkerAfterError == "ready"

WorkerCaught(g) ==
    /\ wpc[g] = "caught"
    /\ wpc' = [wpc EXCEPT ![g] = WorkerAfterError]
    /\ UNCHANGED <<running, recording, autoEnabled, listening, starts, tasks,
                   tq, queues, wq, ring, nTrans, live, audioAdds, lastAdd,
                   latestTranscript, stopped>>
    /\ UNCHANGED <<screenVars, autoVars>>

(***************************************************************************)
(* Screen loop (monitor.py) and the readers of the latest screen (main.py) *)
(***************************************************************************)
\* One pass of _screen_loop from the while test to its first await: capture
\* (img is "none" when capture fails), hash debounce, latest_image.
ScreenIter(g, img) ==
    /\ spc[g] = "ready"
    /\ IF ~running
       THEN /\ spc' = [spc EXCEPT ![g] = "done"]
            /\ UNCHANGED <<latestImage, cur, lastHash>>
       ELSE IF img = "none" \/ img = lastHash[g]
       THEN UNCHANGED <<spc, latestImage, cur, lastHash>>
       ELSE /\ lastHash' = [lastHash EXCEPT ![g] = img]
            /\ latestImage' = img
            /\ cur' = [cur EXCEPT ![g] = img]
            /\ spc' = [spc EXCEPT ![g] = "ocr"]
    /\ UNCHANGED <<screen, latestText, textOf, stable, lastStored,
                   storeCount, obs, rd>>
    /\ UNCHANGED <<monVars, autoVars>>

\* extract_text_async returns (the empty text when OCR fails): latest_text,
\* the stability counter and the memory write for a stable text.
OcrDone(g, text) ==
    /\ spc[g] = "ocr"
    /\ LET st == IF text # latestText THEN 0
                 ELSE IF stable[g] < MaxStable THEN stable[g] + 1
                 ELSE MaxStable
           store == /\ recording
                    /\ st >= StableThreshold
                    /\ text # lastStored[g]
                    /\ LongEnough(text)
       IN  /\ latestText' = text
           /\ textOf' = cur[g]
           /\ stable' = [stable EXCEPT ![g] = IF store THEN 0 ELSE st]
           /\ lastStored' = [lastStored EXCEPT ![g] =
                                IF store THEN text ELSE @]
           /\ storeCount' = IF store /\ storeCount[text] < MaxStoreCount
                            THEN [storeCount EXCEPT ![text] = @ + 1]
                            ELSE storeCount
    /\ obs' = [text |-> text,
               run |-> IF obs.run = 0 \/ text # obs.text THEN 1
                       ELSE IF obs.run < MaxStable THEN obs.run + 1
                       ELSE MaxStable]
    /\ spc' = [spc EXCEPT ![g] = "ready"]
    /\ cur' = [cur EXCEPT ![g] = "none"]
    /\ UNCHANGED <<screen, latestImage, lastHash, rd>>
    /\ UNCHANGED <<monVars, autoVars>>

\* The screen shows something else.
ScreenChange(img) ==
    /\ img # screen
    /\ screen' = img
    /\ UNCHANGED <<latestImage, latestText, textOf, spc, cur, lastHash,
                   stable, lastStored, storeCount, obs, rd>>
    /\ UNCHANGED <<monVars, autoVars>>

\* handle_question_detected (main.py:71) and the chat handler (main.py:141)
\* read monitor.latest_text, then await the send of their start frame ...
ReadText(who) ==
    /\ rd.pc = "idle"
    /\ rd' = [pc |-> "text", who |-> who, txtOf |-> textOf, img |-> "none"]
    /\ UNCHANGED <<screen, latestImage, latestText, textOf, spc, cur,
                   lastHash, stable, lastStored, storeCount, obs>>
    /\ UNCHANGED <<monVars, autoVars>>

\* ... and read monitor.latest_image when they call llm_service.analyze
\* (main.py:86, main.py:153).
ReadImage ==
    /\ rd.pc = "text"
    /\ rd' = [rd EXCEPT !.pc = "done", !.img = latestImage]
    /\ UNCHANGED <<screen, latestImage, latestText, textOf, spc, cur,
                   lastHash, stable, lastStored, storeCount, obs>>
    /\ UNCHANGED <<monVars, autoVars>>

\* The handler finishes; another read may follow.
ReadEnd ==
    /\ rd.pc = "done"
    /\ rd' = NoRead
    /\ UNCHANGED <<screen, latestImage, latestText, textOf, spc, cur,
                   lastHash, stable, lastStored, storeCount, obs>>
    /\ UNCHANGED <<monVars, autoVars>>

\* The application starts its monitor once (lifespan).
StartOnce == starts = 0 /\ Start

\* The monitor's life cycle is followed with a single UI client, whose
\* auto-answer streams run to their end.
FirstConn == {1}

NextScreen ==
    \/ StartOnce /\ UNCHANGED <<sideVars, audioVars, memVars>>
    \/ \E g \in Gens, img \in {screen, "none"} :
          ScreenIter(g, img) /\ UNCHANGED <<sideVars, audioVars, memVars>>
    \/ \E g \in Gens : \E text \in {OcrText(cur[g]), ""} :
          OcrDone(g, text) /\ UNCHANGED <<sideVars, audioVars, memVars>>
    \/ \E img \in Images : ScreenChange(img) /\ UNCHANGED <<sideVars, audioVars, memVars>>
    \/ \E who \in {"auto", "chat"} : ReadText(who) /\ UNCHANGED <<sideVars, audioVars, memVars>>
    \/ ReadImage /\ UNCHANGED <<sideVars, audioVars, memVars>>
    \/ ReadEnd /\ UNCHANGED <<sideVars, audioVars, memVars>>

NextMonitor ==
    \/ Start /\ UNCHANGED <<sideVars, audioVars, memVars>>
    \/ Stop /\ UNCHANGED <<sideVars, audioVars, memVars>>
    \/ \E item \in Items :
          /\ nTrans < MaxLifecycleTranscripts
          /\ HandleTranscript(item)
          /\ UNCHANGED <<sideVars, audioVars, memVars>>
    \/ \E g \in Gens : WorkerStep(g) /\ UNCHANGED <<sideVars, audioVars, memVars>>
    \/ \E g \in Gens : WorkerWake(g) /\ UNCHANGED <<sideVars, audioVars, memVars>>
    \/ \E g \in Gens, img \in {screen, "none"} :
          ScreenIter(g, img) /\ UNCHANGED <<sideVars, audioVars, memVars>>
    \/ \E g \in Gens : \E text \in {OcrText(cur[g]), ""} :
          OcrDone(g, text) /\ UNCHANGED <<sideVars, audioVars, memVars>>
    \/ \E c \in FirstConn : Connect(c) /\ UNCHANGED <<sideVars, audioVars, memVars, monVars, screenVars>>
    \/ \E q \in Questions : AutoBegin(q) /\ UNCHANGED <<sideVars, audioVars, memVars, monVars, screenVars>>
    \/ \E q \in Questions : AutoChunk(q) /\ UNCHANGED <<sideVars, audioVars, memVars, monVars, screenVars>>
    \/ \E q \in Questions : AutoEnd(q) /\ UNCHANGED <<sideVars, audioVars, memVars, monVars, screenVars>>

\* The transcript path alone: listener callbacks, the worker, the recording
\* and auto-answer switches and the clock, with no UI client connected.
NextDispatch ==
    \/ StartOnce /\ UNCHANGED <<sideVars, audioVars, memVars>>
    \/ \E item \in Items : HandleTranscript(item) /\ UNCHANGED <<sideVars, audioVars, memVars>>
    \/ \E g \in Gens : WorkerStep(g) /\ UNCHANGED <<sideVars, audioVars, memVars>>
    \/ \E g \in Gens : WorkerWake(g) /\ UNCHANGED <<sideVars, audioVars, memVars>>
    \/ \E b \in BOOLEAN : SetRecording(b) /\ UNCHANGED <<sideVars, audioVars, memVars>>
    \/ \E b \in BOOLEAN : SetAutoAnswer(b) /\ UNCHANGED <<sideVars, audioVars, memVars>>
    \/ Tick /\ UNCHANGED <<sideVars, audioVars, memVars, monVars, screenVars>>

(***************************************************************************)
(* get_recent_transcript (monitor.py)                                      *)
(***************************************************************************)
\* seconds=120 (main.py:70) and windows as short as one and two clock steps
Windows == {TickStep, 2 * TickStep, 120}

InitRecent == recent = [n |-> 0, seconds |-> 0, out |-> <<>>]

\* ts > cutoff, with cutoff = time.time() - seconds
InWindowInclusive(ts, seconds) == ts >= now - seconds
InWindow(ts, seconds) == ts > now - seconds

\* f"{src.upper()}: {t}"
RenderLine(e) == <<Upper(e.item.src), ": ", e.item>>

\* "\n".join(lines)
RECURSIVE JoinLines(_)
JoinLines(lines) ==
    IF lines = <<>> THEN <<>>
    ELSE IF Len(lines) = 1 THEN Head(lines)
    ELSE Head(lines) \o <<"\n">> \o JoinLines(Tail(lines))

\* The generator over self.recent_transcripts, oldest entry first.
RECURSIVE RecentLines(_, _)
RecentLines(r, seconds) ==
    IF r = <<>> THEN <<>>
    ELSE IF InWindow(Head(r).t, seconds)
    THEN <<RenderLine(Head(r))>> \o RecentLines(Tail(r), seconds)
    ELSE RecentLines(Tail(r), seconds)

\* get_recent_transcript(seconds)
GetRecentTranscript(seconds) ==
    /\ recent.n < MaxRecentCalls
    /\ recent' = [n |-> recent.n + 1, seconds |-> seconds,
                  out |-> JoinLines(RecentLines(ring, seconds))]
    /\ UNCHANGED <<audioVars, memVars, monVars, screenVars, autoVars, questionVars, fan, svc, cp, hs, dd, tr>>

\* Transcripts that start no auto-answer and are not stored to memory.
PlainItems == {item \in Items : ~item.question /\ ~item.words4}

NextRecent ==
    \/ StartOnce /\ UNCHANGED <<sideVars, audioVars, memVars>>
    \/ \E item \in PlainItems :
          HandleTranscript(item) /\ UNCHANGED <<sideVars, audioVars, memVars>>
    \/ \E g \in Gens : WorkerStep(g) /\ UNCHANGED <<sideVars, audioVars, memVars>>
    \/ \E g \in Gens : WorkerWake(g) /\ UNCHANGED <<sideVars, audioVars, memVars>>
    \/ Tick /\ UNCHANGED <<sideVars, audioVars, memVars, monVars, screenVars>>
    \/ \E seconds \in Windows : GetRecentTranscript(seconds)

(***************************************************************************)
(* The fan-out of handle_question_detected, send by send (main.py)         *)
(***************************************************************************)
\* The frames of one auto-answer with a single chunk.
FanFrames == <<StartFrame, ChunkFrame, DoneFrame>>

InitFan == fan = [k |-> 0, pending |-> {}]

\* await asyncio.gather(*[c.send_text(payload) for c in active_connections],
\* return_exceptions=True) is entered for the next frame: one send_text per
\* member of active_connections.  The handler reaches it only when the
\* gather of the frame before has returned; it returns before the first
\* frame when there is no subscriber, and skips a chunk then.
GatherBegin ==
    /\ fan.pending = {}
    /\ fan.k < Len(FanFrames)
    /\ fan.k < 2 => Subs # {}
    /\ fan' = [k |-> fan.k + 1, pending |-> Subs]
    /\ UNCHANGED <<autoVars, questionVars, recent, svc, cp, hs, dd, tr>>
    /\ UNCHANGED <<audioVars, memVars, monVars, screenVars>>

\* The send_text of the current frame to c completes: the peer has the frame.
SendDone(c) ==
    /\ c \in fan.pending
    /\ conn[c] = "open"
    /\ recv' = [recv EXCEPT ![c] = Append(@, <<1, FanFrames[fan.k]>>)]
    /\ fan' = [fan EXCEPT !.pending = @ \ {c}]
    /\ UNCHANGED <<now, conn, lastAuto, nAuto, auto, questionVars, recent, svc, cp, hs, dd, tr>>
    /\ UNCHANGED <<audioVars, memVars, monVars, screenVars>>

\* The send_text to c raises; gather keeps the exception as a result.
SendFail(c) ==
    /\ c \in fan.pending
    /\ conn[c] # "open"
    /\ fan' = [fan EXCEPT !.pending = @ \ {c}]
    /\ UNCHANGED <<autoVars, questionVars, recent, svc, cp, hs, dd, tr>>
    /\ UNCHANGED <<audioVars, memVars, monVars, screenVars>>

\* The subscribers whose sends always come to an end; the sends to the
\* others may take any time.
FastConns == Conns \ {NumConns}

NextFanout ==
    \/ \E c \in Conns : Connect(c) /\ UNCHANGED <<sideVars, audioVars, memVars, monVars, screenVars>>
    \/ \E c \in Conns : PeerLost(c) /\ UNCHANGED <<sideVars, audioVars, memVars, monVars, screenVars>>
    \/ \E c \in Conns : Disconnect(c) /\ UNCHANGED <<sideVars, audioVars, memVars, monVars, screenVars>>
    \/ GatherBegin
    \/ \E c \in Conns : SendDone(c)
    \/ \E c \in Conns : SendFail(c)

(***************************************************************************)
(* AudioService.start_listening / stop_listening (audio.py)                *)
(***************************************************************************)
\* The input devices _get_input_devices can return, and the callbacks a
\* caller can pass.
Devices == 1..NumListeners
Callbacks == {"cb1", "cb2"}

InitService ==
    svc = [listeners |-> {}, callback |-> "none", created |-> 0, calls |-> 0,
           last |-> "none"]

\* `if self.listeners: return`
AlreadyListeningOnAll == svc.listeners = Devices
AlreadyListening == svc.listeners # {}

\* start_listening(callback): devs is what _get_input_devices returns, bad
\* the devices whose DeviceListener cannot be constructed.
StartListening(cb, devs, bad) ==
    /\ svc.calls < MaxServiceCalls
    /\ svc' = IF AlreadyListening
              THEN [svc EXCEPT !.calls = @ + 1, !.last = "start"]
              ELSE [listeners |-> devs \ bad,
                    callback |-> cb,
                    created |-> svc.created + Cardinality(devs \ bad),
                    calls |-> svc.calls + 1,
                    last |-> "start"]
    /\ UNCHANGED <<audioVars, memVars, monVars, screenVars, autoVars>>
    /\ UNCHANGED <<questionVars, recent, fan, cp, hs, dd, tr>>

\* stop_listening(): every listener is stopped and the list cleared; the
\* callback stays.
StopListening ==
    /\ svc.calls < MaxServiceCalls
    /\ svc' = [svc EXCEPT !.listeners = {}, !.calls = @ + 1, !.last = "stop"]
    /\ UNCHANGED <<audioVars, memVars, monVars, screenVars, autoVars>>
    /\ UNCHANGED <<questionVars, recent, fan, cp, hs, dd, tr>>

NextService ==
    \/ \E cb \in Callbacks, devs \in SUBSET Devices, bad \in SUBSET Devices :
          StartListening(cb, devs, bad)
    \/ StopListening

(***************************************************************************)
(* ChromaPool (src/backend/inference/app/services/memory/service.py)       *)
(***************************************************************************)
PoolThreads == 1..NumPoolThreads

\* A caller is idle, inside initialize() ("initlock" before `with
\* self._lock`, "create" and "put" in the loop), inside pool.get ("wait") or
\* in the body of its with-block ("hold").  lvl is the nesting of its
\* with-blocks: 1 in add_memory, 2 in the _prune_smart add_memory calls.
\* c[i] is what the acquire of level i yielded: "pooled", "ephemeral" or
\* "null" for (None, None).
NoCaller == [pc |-> "idle", lvl |-> 0, made |-> 0, waited |-> 0,
             c |-> <<"none", "none">>]

InitPool ==
    cp = [init |-> FALSE, items |-> 0, lock |-> 0,
          th |-> [t \in PoolThreads |-> NoCaller]]

\* acquire() is entered, by add_memory or by the _prune_smart it calls with
\* a collection in hand: `if not self._initialized and not self.initialize()`.
AcquireBegin(t) ==
    LET me == cp.th[t]
    IN  /\ \/ me.pc = "idle"
           \/ me.pc = "hold" /\ me.lvl = 1 /\ me.c[1] # "null"
        /\ cp' = [cp EXCEPT !.th[t].lvl = me.lvl + 1,
                            !.th[t].waited = 0,
                            !.th[t].pc = IF cp.init THEN "wait" ELSE "initlock"]

\* initialize(): `with self._lock:` and the second test of _initialized.
InitEnter(t) ==
    /\ cp.th[t].pc = "initlock"
    /\ cp.lock = 0
    /\ cp' = IF cp.init
             THEN [cp EXCEPT !.th[t].pc = "wait"]
             ELSE [cp EXCEPT !.lock = t, !.th[t].pc = "create",
                             !.th[t].made = 0]

\* One turn of `for _ in range(self._pool_size)`: _create_client() returns
\* or raises; after the last turn _initialized is set.  When it raises,
\* initialize returns False and acquire yields (None, None).
InitCreate(t, ok) ==
    LET me == cp.th[t]
    IN  /\ me.pc = "create"
        /\ cp' = IF me.made = PoolSize
                 THEN [cp EXCEPT !.init = TRUE, !.lock = 0, !.th[t].pc = "wait"]
                 ELSE IF ok
                 THEN [cp EXCEPT !.th[t].pc = "put"]
                 ELSE [cp EXCEPT !.lock = 0, !.th[t].pc = "hold",
                                 !.th[t].c[me.lvl] = "null"]

\* self._pool.put(client) on Queue(maxsize=pool_size): blocks while full.
QueueFull == cp.items >= PoolSize

InitPut(t) ==
    /\ cp.th[t].pc = "put"
    /\ ~QueueFull
    /\ cp' = [cp EXCEPT !.items = @ + 1, !.th[t].made = @ + 1,
                        !.th[t].pc = "create"]

\* self._pool.get(timeout=timeout) returns a pair.
GetItem(t) ==
    LET me == cp.th[t]
    IN  /\ me.pc = "wait"
        /\ cp.items > 0
        /\ cp' = [cp EXCEPT !.items = @ - 1, !.th[t].pc = "hold",
                            !.th[t].c[me.lvl] = "pooled"]

\* The timeout of pool.get has passed.
TimedOut(t) == cp.th[t].waited >= AcquireTimeout

\* pool.get raises Empty: `yield self._create_client()`, which returns an
\* ephemeral client or raises; the exception ends this acquire.
GetTimeout(t, ok) ==
    LET me == cp.th[t]
    IN  /\ me.pc = "wait"
        /\ cp.items = 0
        /\ TimedOut(t)
        /\ cp' = IF ok
                 THEN [cp EXCEPT !.th[t].pc = "hold",
                                 !.th[t].c[me.lvl] = "ephemeral"]
                 ELSE [cp EXCEPT !.th[t].lvl = me.lvl - 1,
                                 !.th[t].pc = IF me.lvl = 1 THEN "idle"
                                              ELSE "hold"]

\* The with-block ends, normally or with an exception: `finally:
\* self._pool.put(pair)` runs for a pair taken from the queue, and only
\* for such a pair.
ReleasePutsWhateverWasYielded(t) ==
    LET me == cp.th[t]
    IN  /\ me.pc = "hold"
        /\ cp' = [cp EXCEPT !.items = IF me.c[me.lvl] # "null" THEN @ + 1
                                      ELSE @,
                            !.th[t].c[me.lvl] = "none",
                            !.th[t].lvl = me.lvl - 1,
                            !.th[t].pc = IF me.lvl = 1 THEN "idle" ELSE "hold"]
Release(t) ==
    LET me == cp.th[t]
    IN  /\ me.pc = "hold"
        /\ cp' = [cp EXCEPT !.items = IF me.c[me.lvl] = "pooled" THEN @ + 1
                                      ELSE @,
                            !.th[t].c[me.lvl] = "none",
                            !.th[t].lvl = me.lvl - 1,
                            !.th[t].pc = IF me.lvl = 1 THEN "idle" ELSE "hold"]

\* Time passes for the callers inside pool.get, none of them beyond its
\* timeout.
PoolTick ==
    /\ \E t \in PoolThreads : cp.th[t].pc = "wait"
    /\ \A t \in PoolThreads :
          cp.th[t].pc = "wait" => cp.th[t].waited < AcquireTimeout
    /\ cp' = [cp EXCEPT !.th = [t \in PoolThreads |->
                 IF cp.th[t].pc = "wait"
                 THEN [cp.th[t] EXCEPT !.waited = @ + 1]
                 ELSE cp.th[t]]]

PoolStep(t) ==
    /\ \/ AcquireBegin(t)
       \/ InitEnter(t)
       \/ \E ok \in BOOLEAN : InitCreate(t, ok)
       \/ InitPut(t)
       \/ GetItem(t)
       \/ \E ok \in BOOLEAN : GetTimeout(t, ok)
       \/ Release(t)
    /\ UNCHANGED <<audioVars, memVars, monVars, screenVars, autoVars>>
    /\ UNCHANGED <<questionVars, recent, fan, svc, hs, dd, tr>>

PoolClock ==
    /\ PoolTick
    /\ UNCHANGED <<audioVars, memVars, monVars, screenVars, autoVars>>
    /\ UNCHANGED <<questionVars, recent, fan, svc, hs, dd, tr>>

NextPool ==
    \/ \E t \in PoolThreads : PoolStep(t)
    \/ PoolClock

(***************************************************************************)
(* HealthServicer (src/backend/inference/app/services/health/service.py)   *)
(***************************************************************************)
\* The registered checkers in registration order, by their `required` flag:
\* a model service (required) and the LLM service (optional).
CheckerRequired == <<TRUE, FALSE>>
Checkers == 1..Len(CheckerRequired)
\* check_fn() returns True, returns False or raises.
CheckOutcomes == {"ok", "bad", "raise"}

NoCache == [set |-> FALSE, healthy |-> FALSE, at |-> 0]

\* After __init__ and register_checker: the overall status "" is SERVING,
\* every registered service UNKNOWN.  calls counts the checker calls made by
\* _check_ready; alls and out are the number of check_all calls and what
\* the checkers did in the last of them.
InitHealth ==
    hs = [now |-> 0, cache |-> NoCache, checks |-> 0, invals |-> 0,
          calls |-> [i \in Checkers |-> 0], status |-> "none",
          alls |-> 0, out |-> [i \in Checkers |-> "none"],
          services |-> [i \in Checkers |-> "UNKNOWN"], overall |-> "SERVING"]

\* self._ready_cache and self._ready_cache.is_valid
CacheValidForever(c) == c.set
CacheValid(c) == c.set /\ (hs.now - c.at) < ReadyTtl

\* The loop over self._checkers from checker i on: whether all were healthy
\* and which were called; a required checker that fails ends the loop.
RECURSIVE RunCheckers(_, _)
RunCheckers(i, out) ==
    IF i > Len(CheckerRequired) THEN [healthy |-> TRUE, ran |-> {}]
    ELSE IF out[i] # "ok" /\ CheckerRequired[i]
    THEN [healthy |-> FALSE, ran |-> {i}]
    ELSE LET rest == RunCheckers(i + 1, out)
         IN  [healthy |-> rest.healthy /\ out[i] = "ok",
              ran |-> rest.ran \cup {i}]

ServingStatus(healthy) == IF healthy THEN "SERVING" ELSE "NOT_SERVING"

\* Check(request) with request.service == "ready": _check_ready().
CheckReady(out) ==
    /\ hs.checks < MaxReadyChecks
    /\ hs' = IF CacheValid(hs.cache)
             THEN [hs EXCEPT !.checks = @ + 1,
                             !.status = ServingStatus(hs.cache.healthy)]
             ELSE LET r == RunCheckers(1, out)
                  IN  [hs EXCEPT !.checks = @ + 1,
                                 !.calls = [i \in Checkers |->
                                    IF i \in r.ran THEN @[i] + 1 ELSE @[i]],
                                 !.cache = [set |-> TRUE, healthy |-> r.healthy,
                                            at |-> hs.now],
                                 !.status = ServingStatus(r.healthy)]
    /\ UNCHANGED <<audioVars, memVars, monVars, screenVars, autoVars>>
    /\ UNCHANGED <<questionVars, recent, fan, svc, cp, dd, tr>>

\* any_required_failed at the end of the loop of check_all
AnyFailed(out) == \E i \in Checkers : out[i] # "ok"
AnyRequiredFailed(out) == \E i \in Checkers : CheckerRequired[i] /\ out[i] # "ok"

\* check_all(): every checker is called; its service is SERVING when it
\* returned True and NOT_SERVING when it returned False or raised.
CheckAll(out) ==
    /\ hs.alls < MaxCheckAlls
    /\ hs' = [hs EXCEPT !.alls = @ + 1,
                        !.out = out,
                        !.services = [i \in Checkers |->
                                        ServingStatus(out[i] = "ok")],
                        !.overall = ServingStatus(~AnyRequiredFailed(out))]
    /\ UNCHANGED <<audioVars, memVars, monVars, screenVars, autoVars>>
    /\ UNCHANGED <<questionVars, recent, fan, svc, cp, dd, tr>>

\* invalidate_ready_cache()
InvalidateReadyCache ==
    /\ hs.invals < MaxInvalidations
    /\ hs' = [hs EXCEPT !.cache = NoCache, !.invals = @ + 1]
    /\ UNCHANGED <<audioVars, memVars, monVars, screenVars, autoVars>>
    /\ UNCHANGED <<questionVars, recent, fan, svc, cp, dd, tr>>

\* time.monotonic() advances.
HealthTick ==
    /\ hs.now < MaxHealthNow
    /\ hs' = [hs EXCEPT !.now = @ + 1]
    /\ UNCHANGED <<audioVars, memVars, monVars, screenVars, autoVars>>
    /\ UNCHANGED <<questionVars, recent, fan, svc, cp, dd, tr>>

NextHealth ==
    \/ \E out \in [Checkers -> CheckOutcomes] : CheckReady(out)
    \/ \E out \in [Checkers -> CheckOutcomes] : CheckAll(out)
    \/ InvalidateReadyCache
    \/ HealthTick

(***************************************************************************)
(* From the listeners to the dispatcher: start() registers                 *)
(* _handle_transcript as the callback of AudioService (monitor.py,         *)
(* audio.py)                                                               *)
(***************************************************************************)
\* self.callback(text) passes CallbackArgs arguments to the bound method
\* _handle_transcript(self, text, source), which takes HandlerParams; the
\* call binds its arguments only when the two agree, and raises TypeError
\* before the body of _handle_transcript runs otherwise.
CallBinds == CallbackArgs = HandlerParams

\* _transcribe from the return of the STT call on: the callback is called
\* when there is text; a TypeError of the call is caught by the
\* `except Exception` of _transcribe like any other.
Transcribed(l, outcome) ==
    /\ SttEnd(l, outcome)
    /\ IF outcome = "text" /\ CallBinds
       THEN \E item \in Items : HandleTranscript(item)
       ELSE UNCHANGED <<monVars, screenVars, autoVars>>
    /\ UNCHANGED <<vad, memVars, sideVars>>

NextPipeline ==
    \/ StartOnce /\ UNCHANGED <<sideVars, audioVars, memVars>>
    \/ \E l \in Listeners :
          listening /\ EmitUtterance(l) /\ UNCHANGED <<vad, memVars, appVars>>
    \/ \E l \in Listeners : AcquireLock(l) /\ UNCHANGED <<vad, memVars, appVars>>
    \/ \E l \in Listeners : SttBegin(l) /\ UNCHANGED <<vad, memVars, appVars>>
    \/ \E l \in Listeners, o \in SttOutcomes : Transcribed(l, o)
    \/ \E g \in Gens : WorkerStep(g) /\ UNCHANGED <<sideVars, audioVars, memVars>>
    \/ Tick /\ UNCHANGED <<sideVars, audioVars, memVars, monVars, screenVars>>

(***************************************************************************)
(* is_question (src/backend/app/services/monitor.py)                       *)
(***************************************************************************)
\* A text is a sequence of characters.  QUESTION_STARTERS, lower case:
QUESTION_STARTERS ==
    {<<"w", "h", "o">>, <<"w", "h", "a", "t">>,
     <<"w", "h", "e", "r", "e">>, <<"w", "h", "e", "n">>,
     <<"w", "h", "y">>, <<"h", "o", "w">>, <<"c", "a", "n">>,
     <<"c", "o", "u", "l", "d">>, <<"w", "o", "u", "l", "d">>,
     <<"s", "h", "o", "u", "l", "d">>, <<"i", "s">>, <<"a", "r", "e">>,
     <<"d", "o">>, <<"d", "o", "e", "s">>, <<"d", "i", "d">>,
     <<"h", "a", "v", "e">>, <<"h", "a", "s">>, <<"w", "i", "l", "l">>,
     <<"w", "o", "n", "'", "t">>, <<"i", "s", "n", "'", "t">>,
     <<"a", "r", "e", "n", "'", "t">>, <<"d", "o", "n", "'", "t">>,
     <<"d", "o", "e", "s", "n", "'", "t">>,
     <<"d", "i", "d", "n", "'", "t">>,
     <<"h", "a", "v", "e", "n", "'", "t">>,
     <<"h", "a", "s", "n", "'", "t">>, <<"w", "a", "s">>,
     <<"w", "e", "r", "e">>, <<"w", "h", "i", "c", "h">>,
     <<"s", "h", "a", "l", "l">>, <<"m", "a", "y">>,
     <<"m", "i", "g", "h", "t">>, <<"t", "e", "l", "l", " ", "m", "e">>}

Whitespace == {" ", "\t", "\n"}
\* The characters \w matches, among those the texts below are made of.
WordChars == {"i", "s", "d", "o", "e", "w", "n", "t", "l", "m", "x",
              "I", "D", "W", "T"}

\* re.IGNORECASE, on the upper-case letters of the texts below.
ToLower(c) ==
    IF c = "I" THEN "i" ELSE IF c = "D" THEN "d"
    ELSE IF c = "W" THEN "w" ELSE IF c = "T" THEN "t" ELSE c

\* text.strip()
RECURSIVE LStrip(_)
LStrip(s) ==
    IF s # <<>> /\ Head(s) \in Whitespace THEN LStrip(Tail(s)) ELSE s
RECURSIVE RStrip(_)
RStrip(s) ==
    IF s # <<>> /\ s[Len(s)] \in Whitespace
    THEN RStrip(SubSeq(s, 1, Len(s) - 1)) ELSE s
Strip(s) == RStrip(LStrip(s))

\* text.endswith('?')
EndsWithQuestionMark(s) == s # <<>> /\ s[Len(s)] = "?"

\* One alternative of the pattern at the start of s, followed by \b: all
\* alternatives end in a word character, so \b holds at the end of the text
\* and before a character that is not a word character.
StarterMatches(w, s) ==
    /\ Len(s) >= Len(w)
    /\ \A i \in 1..Len(w) : ToLower(s[i]) = w[i]
    /\ (Len(s) = Len(w) \/ s[Len(w) + 1] \notin WordChars)

\* QUESTION_STARTERS.match(text): some alternative matches (the regex engine
\* backtracks over the alternatives when \b fails).
MatchesStarter(s) == \E w \in QUESTION_STARTERS : StarterMatches(w, s)

\* not text or len(text) < 10
TooShortQuestionMarkFirst(s) == ~EndsWithQuestionMark(s) /\ Len(s) < MinQuestionLength
TooShort(s) == s = <<>> \/ Len(s) < MinQuestionLength

IsQuestion(text) ==
    LET s == Strip(text)
    IN  IF TooShort(s) THEN FALSE
        ELSE IF EndsWithQuestionMark(s) THEN TRUE
        ELSE MatchesStarter(s)

\* The texts is_question is applied to: optional padding, a first word, a
\* separator, some filler, an optional question mark, optional padding.
FirstWords ==
    {<<>>, <<"i", "s">>, <<"I", "s">>, <<"D", "o", "e", "s">>,
     <<"w", "o", "n", "'", "t">>, <<"t", "e", "l", "l", " ", "m", "e">>,
     <<"T", "e", "l", "l">>, <<"i", "t">>}
Separators == {<<>>, <<" ">>, <<"'">>}
Filler(k) == [i \in 1..k |-> "x"]
LeftPads == {<<>>, <<" ", "\t">>}
RightPads == {<<>>, <<"\n">>}
QuestionTexts ==
    {l \o w \o sep \o Filler(k) \o e \o r :
        l \in LeftPads, w \in FirstWords, sep \in Separators,
        k \in 0..MaxFiller, e \in {<<>>, <<"?">>}, r \in RightPads}

InitQuestion ==
    /\ qin = <<>>
    /\ qout = FALSE

\* is_question(text) is called.
IsQuestionCall(text) ==
    /\ qin' = text
    /\ qout' = IsQuestion(text)

NextQuestion ==
    \E text \in QuestionTexts :
       IsQuestionCall(text)
       /\ UNCHANGED <<audioVars, memVars, monVars, screenVars, autoVars, recent, fan, svc, cp, hs, dd, tr>>

(***************************************************************************)
(* Claims about AudioService                                              *)
(***************************************************************************)
InStt == {l \in Listeners : lpc[l] = "stt"}

\* C1: every emitted utterance gets exactly one STT model call (one call has
\* been started for each utterance whose _transcribe reached the model, none
\* yet for an utterance still waiting for the lock), and at no time are two
\* STT calls in progress.
C1_SingleFlightStt ==
    /\ Cardinality(InStt) <= 1
    /\ \A l \in Listeners :
         sttCalls[l] = IF lpc[l] \in {"acquire", "locked"}
                       THEN emitted[l] - 1 ELSE emitted[l]

\* Two listeners contend: one is inside the STT call while the other has
\* emitted an utterance and waits for the lock.
C1_Witness ==
    \E l1, l2 \in Listeners :
        l1 # l2 /\ lpc[l1] = "stt" /\ lpc[l2] = "acquire" /\ emitted[l1] = 2

\* C12: fed 20 speech chunks and then 17 silence chunks, the listener has
\* emitted exactly one utterance, of at least 8000 samples.
C12_AsClaimed ==
    (vad.shaped /\ vad.his = 20 /\ vad.los = 17) =>
        /\ Len(vad.utterances) = 1
        /\ vad.utterances[1].samples >= 8000
        /\ ~vad.speaking

\* C13: every emitted utterance holds at least 0.5 s of speech; an episode
\* with less speech than that is discarded whatever silence follows it.
C13_AsClaimed ==
    \A i \in 1..Len(vad.utterances) :
       vad.utterances[i].voiced * 2 >= SampleRate

(***************************************************************************)
(* Claims about MemoryService                                              *)
(***************************************************************************)
\* C3: a pruning run (direct, or triggered by add_memory/add_memories_batch)
\* never removes a record whose access_count is >= 5, whatever keep is.
C3_ProtectedNeverPruned ==
    [][mop'.kind \in {"add", "batch", "prune"} =>
         \A i \in 1..Len(records) :
            records[i].ac >= PROTECTED_ACCESS_COUNT =>
               records[i].id \in Ids(records')]_vars

\* A pruning run deleted something, left the collection above keep, and every
\* record it left has access_count >= 5.
C3_Witness ==
    /\ mop.pruned
    /\ mop.ndel > 0
    /\ Len(records) > mop.keep
    /\ \A i \in 1..Len(records) : records[i].ac >= PROTECTED_ACCESS_COUNT

C17_AsClaimed == ~mop.dup

\* C18: no step lowers the access_count of a record.
C18_AsClaimed ==
    [][\A i \in 1..Len(records) :
          i <= Len(records') => records'[i].ac >= records[i].ac]_vars

\* C19: when no query_memory call is in progress, the access_count of every
\* record is the number of calls that returned it.
C19_AsClaimed ==
    (\A t \in QThreads : qry[t].pc = "idle") =>
        \A i \in 1..Len(records) : records[i].ac = qhits[records[i].id]

(***************************************************************************)
(* Claims about the screen loop and its readers                            *)
(***************************************************************************)
\* C2: when a handler has read latest_text and latest_image, the text it read
\* is the OCR result of the image it read (both from one loop iteration).
C2_AsClaimed == rd.pc = "done" => rd.img = rd.txtOf

\* C14: with recording on, a storable text that OCR has returned twice in a
\* row has been written to memory.
C14_AsClaimed ==
    (recording /\ obs.run = 2 /\ LongEnough(obs.text)) =>
        storeCount[obs.text] >= 1

\* C37 as stated: when from some time on the monitor runs with recording on,
\* the screen shows the same image and the loop has read its (long) text,
\* that text is eventually written to memory.
C37_AsClaimed ==
    \A img \in Images :
       <>[](running /\ recording /\ screen = img /\ latestText = OcrText(img))
          => <>(storeCount[OcrText(img)] >= 1)

\* C15: no screen text is written to memory more than once.
C15_AsClaimed == \A t \in Texts : storeCount[t] <= 1

\* C16: an iteration whose OCR call returns the empty text changes neither
\* latest_text nor the stability counter nor the last-stored text, and
\* writes nothing.
C16_AsClaimed ==
    [][\A g \in Gens :
          (spc[g] = "ocr" /\ spc'[g] = "ready" /\ obs'.text = "") =>
             /\ latestText' = latestText
             /\ stable'[g] = stable[g]
             /\ lastStored'[g] = lastStored[g]
             /\ storeCount' = storeCount]_vars

(***************************************************************************)
(* Claims about the auto-answer controller                                 *)
(***************************************************************************)
Begun(q) == auto[q].pc \notin {"none", "spawned"}
Fired(q) == auto[q].pc \in {"stream", "done", "failed"}

\* The kinds of the frames websocket c received for question q, in order.
RECURSIVE KindsIn(_, _)
KindsIn(s, q) ==
    IF s = <<>> THEN <<>>
    ELSE (IF Head(s)[1] = q THEN <<Head(s)[2]>> ELSE <<>>) \o KindsIn(Tail(s), q)
Kinds(c, q) == KindsIn(recv[c], q)

FiredTimes == {auto[q].at : q \in {p \in Questions : Fired(p)}}

\* C5: a detected question fires (auto_start, LLM stream) exactly when there
\* is a subscriber and at least cooldown_seconds have passed since the last
\* fired one, a question that does not fire emits no frame, the last-fired
\* timestamp is the time of the latest fired question, and any two fired
\* questions are at least cooldown_seconds apart.
C5_CooldownGate ==
    /\ \A q \in Questions :
         Begun(q) =>
            /\ Fired(q) <=> (auto[q].hadSubs /\ auto[q].at - auto[q].prev >= Cooldown)
            /\ ~Fired(q) => /\ auto[q].sent = <<>>
                            /\ \A c \in Conns : Kinds(c, q) = <<>>
    /\ lastAuto \in FiredTimes \cup {0}
    /\ \A t \in FiredTimes : t <= lastAuto
    /\ \A q1, q2 \in Questions :
         (q1 # q2 /\ Fired(q1) /\ Fired(q2)) =>
            (auto[q1].at - auto[q2].at >= Cooldown \/ auto[q2].at - auto[q1].at >= Cooldown)

\* The first question fired, the second came inside the cooldown and was
\* dropped, the third came after the cooldown and fired.
C5_Witness ==
    /\ Fired(1) /\ Begun(2) /\ ~Fired(2) /\ auto[2].hadSubs /\ Fired(3)
    /\ auto[2].at - auto[1].at < Cooldown
    /\ auto[3].at - auto[1].at >= Cooldown

\* start, chunk*, done
CompleteStream(s) ==
    /\ Len(s) >= 2
    /\ s[1] = "auto_start"
    /\ s[Len(s)] = "auto_done"
    /\ \A i \in 2..(Len(s) - 1) : s[i] = "auto_chunk"

C8_NoSubscriberSkip ==
    [][\A q \in Questions :
          /\ (auto[q].pc = "spawned" /\ auto'[q].pc # "spawned" /\ Subs = {}) =>
                /\ auto'[q].pc = "skipped"
                /\ auto'[q].sent = <<>>
                /\ recv' = recv
                /\ lastAuto' = lastAuto
          /\ auto[q].pc = "skipped" => auto'[q] = auto[q]]_vars

\* A question was skipped for want of subscribers and a later one, detected
\* less than the cooldown after it, fired.
C8_Witness ==
    \E q1, q2 \in Questions :
       /\ q1 < q2
       /\ auto[q1].pc = "skipped" /\ ~auto[q1].hadSubs
       /\ Fired(q2)
       /\ auto[q2].at - auto[q1].at < Cooldown
       /\ auto[q2].prev = 0

(***************************************************************************)
(* Claims about the monitor's life cycle                                   *)
(***************************************************************************)
\* C9: once stop() has returned the monitor is not running, the listeners
\* are stopped and the screen loops, the transcript workers and the
\* auto-answer tasks have all ended.
C9_AsClaimed ==
    stopped =>
       /\ ~running
       /\ ~listening
       /\ \A g \in Gens : spc[g] \in {"none", "done"} /\ wpc[g] \in {"none", "done"}
       /\ \A q \in Questions : auto[q].pc \notin {"spawned", "stream"}

\* C10: start() on a running monitor leaves the task set, the tasks and the
\* transcript queue as they are.  (stop() on a stopped monitor changes no
\* variable, so no step of it can be told apart from stuttering.)
C10_AsClaimed ==
    [][(starts' = starts + 1 /\ running) =>
          (tq' = tq /\ tasks' = tasks /\ spc' = spc /\ wpc' = wpc)]_vars


(***************************************************************************)
(* Claims about the transcript dispatcher                                  *)
(***************************************************************************)
\* The worker of generation g takes the head of a queue and processes it.
Processes(g) == queues[g] # <<>> /\ queues'[g] = Tail(queues[g])

\* C11: recent_transcripts never holds more than its capacity, its
\* timestamps are in non-decreasing order, a processed transcript is appended
\* at the end with the time of its processing, evicting the oldest entry when
\* the ring is full, and no other step changes the ring.
C11_RingKeepsMostRecent ==
    /\ [](/\ Len(ring) <= RingCap
          /\ \A i \in 1..(Len(ring) - 1) : ring[i].t <= ring[i + 1].t)
    /\ [][/\ \A g \in Gens :
              Processes(g) =>
                 ring' = (IF Len(ring) < RingCap THEN ring ELSE Tail(ring))
                            \o <<[t |-> now, item |-> Head(queues[g])]>>
          /\ (\A g \in Gens : ~Processes(g)) => ring' = ring]_vars

\* Three transcripts were processed at different times: the ring is full and
\* holds the last two.
C11_Witness ==
    /\ nTrans = MaxTranscripts
    /\ \A g \in Gens : queues[g] = <<>>
    /\ Len(ring) = RingCap
    /\ ring[1].t < ring[RingCap].t
    /\ latestTranscript = ring[RingCap].item

\* C20: processing an item calls add_memory exactly when recording is on at
\* that moment and the text has at least 4 words, with source "audio" and the
\* text "{SOURCE}: {text}"; no other step makes such a call, so nothing is
\* written while recording is off.
C20_RecordingGate ==
    [][
      /\ \A g \in Gens :
           Processes(g) =>
              LET item == Head(queues[g])
              IN  IF recording /\ item.words4
                  THEN /\ audioAdds' = audioAdds + 1
                       /\ lastAdd'.source = "audio"
                       /\ lastAdd'.text =
                             <<IF item.src = "system" THEN "SYSTEM" ELSE "USER",
                               ": ", item>>
                  ELSE audioAdds' = audioAdds /\ lastAdd' = lastAdd
      /\ (\A g \in Gens : ~Processes(g)) =>
             (audioAdds' = audioAdds /\ lastAdd' = lastAdd)
      /\ ~recording => audioAdds' = audioAdds
    ]_vars

\* Two 4-word transcripts were processed, one with recording on and one
\* after set_recording(False): only the first was written.
C20_Witness ==
    /\ ~recording
    /\ nTrans = 2
    /\ \A g \in Gens : queues[g] = <<>>
    /\ Len(ring) = 2
    /\ ring[1].item.words4 /\ ring[2].item.words4
    /\ ring[1].item.src = "user"
    /\ audioAdds = 1
    /\ lastAdd = [text |-> <<"USER", ": ", ring[1].item>>, source |-> "audio"]

\* C21: processing an item creates exactly one auto-answer task when
\* auto-answer is enabled, the source is "system" and the text is a question,
\* and none otherwise; no other step of the dispatcher creates one.
C21_TriggerGate ==
    [][
      /\ \A g \in Gens :
           Processes(g) =>
              LET item == Head(queues[g])
              IN  IF autoEnabled /\ item.src = "system" /\ item.question
                  THEN /\ nAuto' = nAuto + 1
                       /\ auto'[nAuto + 1].pc = "spawned"
                       /\ \A q \in Questions \ {nAuto + 1} : auto'[q] = auto[q]
                  ELSE nAuto' = nAuto /\ auto' = auto
      /\ (\A g \in Gens : ~Processes(g)) => (nAuto' = nAuto /\ auto' = auto)
    ]_vars

\* Three transcripts were processed, the last two of them questions from
\* system audio; auto-answer was switched off on the way and a single task
\* was created.
C21_Witness ==
    /\ ~autoEnabled
    /\ nTrans = 3
    /\ \A g \in Gens : queues[g] = <<>>
    /\ Len(ring) = 2
    /\ ring[1].item.question /\ ring[1].item.src = "system"
    /\ ring[2].item.question /\ ring[2].item.src = "system"
    /\ ring[1].t < ring[2].t
    /\ nAuto = 1

\* C25: every call of _handle_transcript made while the monitor is running
\* calls the live-broadcast callback exactly once, with the text and source
\* it was given, whatever the recording and auto-answer flags, the word count
\* and the outcome of question detection; no other step calls the callback.
C25_LiveBroadcast ==
    [][
      /\ (running /\ nTrans' = nTrans + 1) =>
            /\ live'.n = live.n + 1
            /\ queues'[tq] = Append(queues[tq], live'.last)
      /\ (~running \/ nTrans' = nTrans) => live' = live
    ]_vars

\* Recording and auto-answer are off; three transcripts were handed over, the
\* last of them a system question of four words or more, and each was
\* broadcast.
C25_Witness ==
    /\ running /\ ~recording /\ ~autoEnabled
    /\ nTrans = 3
    /\ live.n = 3
    /\ live.last = [src |-> "system", question |-> TRUE, words4 |-> TRUE]

(***************************************************************************)
(* Claims about the auto-answer fan-out, send by send                      *)
(***************************************************************************)
\* C26 (as claimed): a slow subscriber only hurts itself: a subscriber whose
\* own sends come to an end and who stays connected gets every remaining
\* frame of the answer, the done frame last, however long the sends to
\* another subscriber take.  (It holds when the sends to every subscriber
\* come to an end.)
C26_AsClaimed ==
    \A c \in FastConns :
       (/\ conn[c] = "open"
        /\ fan.k >= 1
        /\ (fan.k < Len(FanFrames) \/ c \in fan.pending)) ~>
          \/ conn[c] # "open"
          \/ /\ recv[c] # <<>>
             /\ recv[c][Len(recv[c])] = <<1, DoneFrame>>

(***************************************************************************)
(* Claims about AudioService.start_listening                               *)
(***************************************************************************)
\* C27: a call of start_listening made while the service has listeners
\* creates no DeviceListener and leaves the listeners and the registered
\* callback as they were.
C27_StartIsNoOp ==
    [][
      (svc'.last = "start" /\ svc'.calls # svc.calls /\ svc.listeners # {}) =>
         /\ svc'.listeners = svc.listeners
         /\ svc'.callback = svc.callback
         /\ svc'.created = svc.created
    ]_vars

\* The service listens on one device only, with the first callback, and its
\* latest call was a second start_listening.
C27_Witness ==
    /\ svc.calls = 2
    /\ svc.last = "start"
    /\ svc.created = 1
    /\ Cardinality(svc.listeners) = 1
    /\ svc.callback = "cb1"

(***************************************************************************)
(* Claims about AudioService._transcribe                                   *)
(***************************************************************************)
\* C28: the callback is called for exactly the utterances whose STT call
\* returned text, never for one whose call raised or returned nothing; after
\* every STT call, however it ended, the listener is back to listening or at
\* its next utterance, and the lock is held only by a listener inside
\* _transcribe.
C28_FailedSttIsDropped ==
    /\ \A l \in Listeners :
          /\ \A k \in 1..Len(outcomes[l]) :
                (\E i \in 1..Len(delivered) : delivered[i] = <<l, k>>)
                   <=> outcomes[l][k] = "text"
          /\ Len(outcomes[l]) = IF lpc[l] = "listen" THEN emitted[l]
                                ELSE emitted[l] - 1
          /\ lock = l <=> lpc[l] \in {"locked", "stt"}
    /\ \A i \in 1..Len(delivered) :
          delivered[i][2] <= Len(outcomes[delivered[i][1]])

\* The first STT call of one listener raised and the first of another
\* returned nothing; the second utterance of each was transcribed and passed
\* to the callback, and the lock is free.
C28_Witness ==
    \E l1, l2 \in Listeners :
       /\ outcomes[l1] = <<"raise", "text">>
       /\ outcomes[l2] = <<"empty", "text">>
       /\ delivered = <<<<l1, 2>>, <<l2, 2>>>>
       /\ lock = 0

\* C38 as stated: at most one auto-answer is between its auto_start and its
\* auto_done at any time.
C38_AsClaimed ==
    Cardinality({q \in Questions : auto[q].pc = "stream"}) <= 1

\* C40: with the monitor started once and not stopped, the n-th transcript
\* put on the queue is eventually taken from it and handed to
\* _process_transcript, for every n, whether or not processing an earlier
\* item raised.
C40_EventuallyProcessed ==
    \A n \in 1..MaxTranscripts :
       (running /\ nTrans >= n) ~> (running /\ nTrans - Len(queues[tq]) >= n)

\* Two storable transcripts of different sources went through the worker
\* with recording on: processing the first raised in its memory write,
\* the second was processed and stored, and the queue is empty.
C40_Witness ==
    /\ running /\ recording
    /\ nTrans = 2
    /\ queues[tq] = <<>>
    /\ Len(ring) = 2
    /\ ring[1].item.words4 /\ ring[2].item.words4
    /\ ring[1].item.src # ring[2].item.src
    /\ audioAdds = 1
    /\ lastAdd.text = FormatTranscript(ring[2].item)
    /\ wpc[1] \in {"ready", "get"}

(***************************************************************************)
(* Claims about ChromaPool                                                 *)
(***************************************************************************)
Acquiring(t) == cp.th[t].pc \in {"initlock", "create", "put", "wait"}

\* C29 (as claimed): every acquire comes to an end, yielding a client to its
\* caller, and no caller is inside pool.get for longer than the timeout.
C29_AsClaimed ==
    /\ \A t \in PoolThreads : Acquiring(t) ~> ~Acquiring(t)
    /\ [](\A t \in PoolThreads : cp.th[t].waited <= AcquireTimeout)

\* What holds of an initialized pool: an acquire entered then yields a pooled
\* or an ephemeral client, or ends with the exception of _create_client, also
\* when its caller holds a pooled client and the queue is empty.
AcquireYieldsOnceInitialized ==
    \A t \in PoolThreads :
       (cp.init /\ cp.th[t].pc = "wait") ~>
          \/ /\ cp.th[t].pc = "hold"
             /\ cp.th[t].c[cp.th[t].lvl] \in {"pooled", "ephemeral"}
          \/ cp.th[t].pc = "idle"
          \/ cp.th[t].pc = "hold" /\ cp.th[t].lvl = 1

\* C34 as stated: initialize() does not block: a caller about to put a new
\* client into the queue finds room for it.
C34_AsClaimed ==
    \A t \in PoolThreads : cp.th[t].pc = "put" => cp.items < PoolSize

\* The pooled clients that callers hold in their with-blocks.
HeldPooled(t) == Cardinality({i \in 1..2 : cp.th[t].c[i] = "pooled"})
RECURSIVE SumHeld(_)
SumHeld(t) == IF t = 0 THEN 0 ELSE HeldPooled(t) + SumHeld(t - 1)

\* C35: once the pool is initialized, the clients in the queue and the
\* pooled clients held by callers are pool_size together: a pooled client is
\* put back when its with-block ends, an ephemeral one is not.
C35_PoolConserved ==
    cp.init => cp.items + SumHeld(NumPoolThreads) = PoolSize

\* The pool is initialized and its queue empty: one caller holds a pooled
\* client and, from a nested acquire that timed out, an ephemeral one, and
\* another caller holds the other pooled client.
C35_Witness ==
    /\ cp.init
    /\ \E t \in PoolThreads : cp.th[t].c = <<"pooled", "ephemeral">>
    /\ \E t \in PoolThreads : cp.th[t].pc = "hold" /\ cp.th[t].lvl = 1
                                /\ cp.th[t].c[1] = "pooled"
    /\ cp.items = 0

(***************************************************************************)
(* Claims about HealthServicer                                             *)
(***************************************************************************)
\* C30: a ready Check made while there is a cached result younger than the
\* TTL calls no checker and returns the cached status; made without a cached
\* result, or with one as old as the TTL or older, it runs the checkers and
\* caches the result at the current time; invalidate_ready_cache leaves no
\* cached result; and no step that is not a ready Check runs the checkers on
\* its behalf.
C30_ReadyCache ==
    [][
      LET fresh == hs.cache.set /\ hs.now - hs.cache.at < ReadyTtl
      IN  /\ hs'.checks # hs.checks =>
                IF fresh
                THEN /\ hs'.calls = hs.calls
                     /\ hs'.cache = hs.cache
                     /\ hs'.status = (IF hs.cache.healthy THEN "SERVING"
                                      ELSE "NOT_SERVING")
                ELSE /\ hs'.calls[1] = hs.calls[1] + 1
                     /\ hs'.cache.set
                     /\ hs'.cache.at = hs.now
          /\ hs'.checks = hs.checks => hs'.calls = hs.calls
          /\ hs'.invals # hs.invals => ~hs'.cache.set
    ]_vars

\* C31: after check_all the overall status is NOT_SERVING exactly when a
\* required checker returned False or raised; every service has the status
\* of its own checker, so a failing optional checker makes only its own
\* service NOT_SERVING.
C31_OverallStatus ==
    hs.alls > 0 =>
       /\ hs.overall = "NOT_SERVING" <=>
             \E i \in Checkers : CheckerRequired[i] /\ hs.out[i] \in {"bad", "raise"}
       /\ hs.overall \in {"SERVING", "NOT_SERVING"}
       /\ \A i \in Checkers :
             hs.services[i] = IF hs.out[i] = "ok" THEN "SERVING" ELSE "NOT_SERVING"

\* check_all found the required checker healthy and the optional one raising:
\* the optional service is NOT_SERVING, the overall status SERVING.
C31_Witness ==
    /\ hs.alls > 0
    /\ hs.out = <<"ok", "raise">>
    /\ hs.services = <<"SERVING", "NOT_SERVING">>
    /\ hs.overall = "SERVING"

C30_Witness ==
    /\ hs.checks = 3
    /\ hs.invals = 0
    /\ hs.calls[1] = 2
    /\ hs.cache.set
    /\ hs.cache.at = ReadyTtl
    /\ hs.now = ReadyTtl

(***************************************************************************)
(* Claims about get_recent_transcript                                      *)
(***************************************************************************)
\* C24: a call of get_recent_transcript(seconds) returns the entries of the
\* ring that are less than `seconds` old, oldest first, each as the upper-case
\* source, ": " and the text, with a newline between two entries, and leaves
\* the ring as it was.
C24_RecentTranscript ==
    [][
      recent'.n # recent.n =>
         LET seconds == recent'.seconds
             kept == SelectSeq(ring, LAMBDA e : now - e.t < seconds)
             line(i) == <<(IF kept[i].item.src = "system" THEN "SYSTEM" ELSE "USER"),
                          ": ", kept[i].item>>
         IN  /\ recent'.out = JoinLines([i \in 1..Len(kept) |-> line(i)])
             /\ ring' = ring
    ]_vars

\* A call with a window of one clock step found two entries in the ring, the
\* older one exactly one step old, and returned the line of the newer one.
C24_Witness ==
    /\ recent.n > 0
    /\ recent.seconds = TickStep
    /\ Len(ring) = 2
    /\ ring[1].t = now - TickStep
    /\ ring[2].t = now
    /\ ring[1].item.src = "system"
    /\ recent.out = <<"USER", ": ", ring[2].item>>

(***************************************************************************)
(* Claims about the path from the listeners to the dispatcher              *)
(***************************************************************************)
\* C23 (as claimed): the utterances of a listener reach the dispatcher in the
\* order they were emitted: once every transcription has returned, each text
\* the STT produced has been handed to the dispatcher, which has it in its
\* queue or has put it into the ring.
C23_AsClaimed ==
    (starts > 0 /\ \A l \in Listeners : lpc[l] = "listen") =>
       /\ nTrans = Len(delivered)
       /\ Len(ring) + Len(queues[tq]) >=
             (IF Len(delivered) < RingCap THEN Len(delivered) ELSE RingCap)

(***************************************************************************)
(* Claims about is_question                                                *)
(***************************************************************************)
\* C22: is_question returns true exactly when the stripped text has at least
\* 10 characters and either ends with a question mark or begins, ignoring
\* case and at a word boundary, with one of the starters; a text shorter than
\* 10 characters is never a question, whatever it ends or begins with.
C22_IsQuestion ==
    LET s == Strip(qin)
    IN  /\ qout = (/\ Len(s) >= 10
                   /\ (s[Len(s)] = "?" \/ MatchesStarter(s)))
        /\ Len(s) < 10 => ~qout

\* A padded text of nine characters that begins with a starter and ends with
\* a question mark was given to is_question, which returned false.
C22_Witness ==
    /\ Strip(qin) # qin
    /\ Len(Strip(qin)) = 9
    /\ EndsWithQuestionMark(Strip(qin))
    /\ MatchesStarter(Strip(qin))
    /\ ~qout

(***************************************************************************)
(* MemoryService._prune_duplicates (memory/service.py)                     *)
(*                                                                         *)
(* One pass over a collection of up to NumDedupRecords records, each with  *)
(* a timestamp and an access_count.  The similarity of two records is      *)
(* 1 - distance in hundredths, the same in both directions; a record's     *)
(* similarity to itself is 100.  The threshold argument is left at None.   *)
(***************************************************************************)
DedupMetas == [ts : 0..MaxDedupTs, ac : 0..MaxDedupAccess]
DedupCollections == UNION {[1..n -> DedupMetas] : n \in 1..NumDedupRecords}
DedupPairs(n) == {p \in (1..n) \X (1..n) : p[1] < p[2]}
SimValues == {SIMILARITY_THRESHOLD - 1, SIMILARITY_THRESHOLD, SIMILARITY_THRESHOLD + 1}

\* 1.0 - dist for the records i and r
SimOf(sim, i, r) ==
    IF i = r THEN 100 ELSE IF i < r THEN sim[<<i, r>>] ELSE sim[<<r, i>>]

NoDedup == [ran |-> FALSE, passes |-> 0, recs |-> <<>>, sim |-> <<>>,
            log |-> <<>>, toDel |-> {}, left |-> {}]
InitDedup == dd = NoDedup

\* sorted(zip(ids, docs, metas), key=timestamp, reverse=True): stable
RECURSIVE InsertNewestFirst(_, _, _)
InsertNewestFirst(recs, x, s) ==
    IF s = <<>> THEN <<x>>
    ELSE IF recs[x].ts > recs[Head(s)].ts THEN <<x>> \o s
    ELSE <<Head(s)>> \o InsertNewestFirst(recs, x, Tail(s))

RECURSIVE NewestFirst(_, _)
NewestFirst(recs, k) ==
    IF k = 0 THEN <<>>
    ELSE InsertNewestFirst(recs, k, NewestFirst(recs, k - 1))

\* [:sample_size]
FirstOf(s, k) == SubSeq(s, 1, IF k < Len(s) THEN k ELSE Len(s))
Sample(recs, sampleSize) == FirstOf(NewestFirst(recs, Len(recs)), sampleSize)

\* collection.query(query_texts=[doc1], n_results=DEDUP_NEIGHBOR_COUNT): the
\* records by falling similarity to record i, the record itself first; the
\* order of two equally similar records is the store's (lowFirst).
RECURSIVE NearestFirst(_, _, _, _)
NearestFirst(sim, i, S, lowFirst) ==
    IF S = {} THEN <<>>
    ELSE LET best == CHOOSE r \in S : \A q \in S \ {r} :
                        \/ SimOf(sim, i, r) > SimOf(sim, i, q)
                        \/ /\ SimOf(sim, i, r) = SimOf(sim, i, q)
                           /\ IF lowFirst THEN r < q ELSE r > q
         IN  <<best>> \o NearestFirst(sim, i, S \ {best}, lowFirst)

Neighbors(recs, sim, i, lowFirst) ==
    FirstOf(NearestFirst(sim, i, 1..Len(recs), lowFirst), DEDUP_NEIGHBOR_COUNT)

\* (1.0 - dist) < thresh
BelowThreshold(sim, i, r) == SimOf(sim, i, r) < SIMILARITY_THRESHOLD

\* ac1 > ac2 or (ac1 == ac2 and ts1 >= ts2): the neighbour is the one deleted
DeletesNeighborByAge(m1, rm) == m1.ts >= rm.ts
DeletesNeighbor(m1, rm) == m1.ac > rm.ac \/ (m1.ac = rm.ac /\ m1.ts >= rm.ts)

\* The inner loop over the neighbours of record i; st is to_del and the
\* comparisons made so far.
RECURSIVE CompareNeighbors(_, _, _, _, _)
CompareNeighbors(recs, sim, i, nbrs, st) ==
    IF nbrs = <<>> THEN st
    ELSE LET rid == Head(nbrs)
         IN  IF rid = i \/ rid \in st.toDel \/ BelowThreshold(sim, i, rid)
             THEN CompareNeighbors(recs, sim, i, Tail(nbrs), st)
             ELSE LET del == IF DeletesNeighbor(recs[i], recs[rid])
                             THEN rid ELSE i
                  IN  CompareNeighbors(recs, sim, i, Tail(nbrs),
                         [toDel |-> st.toDel \cup {del},
                          log |-> Append(st.log,
                                     [id1 |-> i, rid |-> rid, del |-> del])])

\* The outer loop over the sample; a record already in to_del is passed over.
RECURSIVE ScanSample(_, _, _, _, _)
ScanSample(recs, sim, lowFirst, sample, st) ==
    IF sample = <<>> THEN st
    ELSE LET id1 == Head(sample)
         IN  IF id1 \in st.toDel
             THEN ScanSample(recs, sim, lowFirst, Tail(sample), st)
             ELSE ScanSample(recs, sim, lowFirst, Tail(sample),
                     CompareNeighbors(recs, sim, id1,
                        Neighbors(recs, sim, id1, lowFirst), st))

\* _prune_duplicates(sample_size) on a collection holding recs
PruneDuplicates(recs, sim, lowFirst, sampleSize) ==
    /\ dd.passes < MaxDedupPasses
    /\ dd' = IF Len(recs) < 2
             THEN [NoDedup EXCEPT !.ran = TRUE, !.passes = dd.passes + 1,
                                  !.recs = recs, !.sim = sim,
                                  !.left = 1..Len(recs)]
             ELSE LET st == ScanSample(recs, sim, lowFirst,
                               Sample(recs, sampleSize),
                               [toDel |-> {}, log |-> <<>>])
                  IN  [ran |-> TRUE, passes |-> dd.passes + 1,
                       recs |-> recs, sim |-> sim,
                       log |-> st.log, toDel |-> st.toDel,
                       left |-> (1..Len(recs)) \ st.toDel]
    /\ UNCHANGED <<audioVars, memVars, monVars, screenVars, autoVars,
                   questionVars, recent, fan, svc, cp, hs, tr>>

NextDedup ==
    \E recs \in DedupCollections :
       \E sim \in [DedupPairs(Len(recs)) -> SimValues] :
          \E lowFirst \in BOOLEAN, sampleSize \in 1..NumDedupRecords :
             PruneDuplicates(recs, sim, lowFirst, sampleSize)

\* C33: in a _prune_duplicates pass every comparison that chose a record for
\* deletion was between a sampled record and a neighbour at least as similar
\* as the threshold, and chose the one with the lower access_count, or on
\* equal access_count one that is not the newer of the two; to_del holds
\* the records so chosen and no other, so a neighbour below the threshold is
\* not deleted on account of its comparison.
C33_DeletionRule ==
    /\ \A k \in 1..Len(dd.log) :
          LET e == dd.log[k]
              kept == IF e.del = e.id1 THEN e.rid ELSE e.id1
          IN  /\ e.del \in {e.id1, e.rid}
              /\ e.id1 # e.rid
              /\ SimOf(dd.sim, e.id1, e.rid) >= SIMILARITY_THRESHOLD
              /\ \/ dd.recs[e.del].ac < dd.recs[kept].ac
                 \/ /\ dd.recs[e.del].ac = dd.recs[kept].ac
                    /\ dd.recs[e.del].ts <= dd.recs[kept].ts
    /\ dd.toDel = {dd.log[k].del : k \in 1..Len(dd.log)}

\* A pass compared one sampled record with two neighbours: it chose the
\* sampled record itself in one comparison (lower access_count) and the older
\* neighbour of equal access_count in the other, and left a pair below the
\* threshold uncompared.
C33_Witness ==
    /\ dd.ran
    /\ Len(dd.log) = 2
    /\ \E k \in 1..2 : /\ dd.log[k].del = dd.log[k].id1
                       /\ dd.recs[dd.log[k].id1].ac < dd.recs[dd.log[k].rid].ac
    /\ \E k \in 1..2 : /\ dd.log[k].del = dd.log[k].rid
                       /\ dd.recs[dd.log[k].id1].ac = dd.recs[dd.log[k].rid].ac
                       /\ dd.recs[dd.log[k].id1].ts > dd.recs[dd.log[k].rid].ts
    /\ \E p \in DedupPairs(Len(dd.recs)) : dd.sim[p] < SIMILARITY_THRESHOLD

\* C36 as stated: after a pass every deleted record has a surviving record
\* at least as similar to it as the threshold.
C36_AsClaimed ==
    dd.ran =>
       \A d \in dd.toDel :
          \E k \in dd.left : SimOf(dd.sim, d, k) >= SIMILARITY_THRESHOLD

(***************************************************************************)
(* Trace context and spans (core/trace.py)                                 *)
(*                                                                         *)
(* The three context variables are one record; None is 0.  Ids are fresh   *)
(* numbers.  Spans are entered and left by with-statements of one task, so *)
(* the span that exits is the innermost open one.                          *)
(***************************************************************************)
NoCtx == [trace |-> 0, span |-> 0, parent |-> 0]
InitTrace == tr = [cur |-> NoCtx, ids |-> 0, roots |-> 0, spans |-> <<>>,
                   exited |-> 0]

\* TraceContext.new(parent): ids holds the last id handed out
TraceContextNew(parent, ids) ==
    IF parent # NoCtx
    THEN [trace |-> parent.trace, span |-> ids + 1, parent |-> parent.span]
    ELSE [trace |-> ids + 1, span |-> ids + 2, parent |-> 0]

IdsUsed(parent) == IF parent # NoCtx THEN 1 ELSE 2

\* TraceContext.current(): None when no trace id is set
TraceContextCurrent == IF tr.cur.trace = 0 THEN NoCtx ELSE tr.cur

TraceUnchanged ==
    UNCHANGED <<audioVars, memVars, monVars, screenVars, autoVars,
                questionVars, recent, fan, svc, cp, hs, dd>>

\* set_trace_context(TraceContext.new()): a request begins a trace
SetTraceContext ==
    /\ tr.roots < MaxRoots
    /\ \A k \in 1..Len(tr.spans) : ~tr.spans[k].open
    /\ tr' = [tr EXCEPT !.cur = TraceContextNew(NoCtx, tr.ids),
                        !.ids = @ + IdsUsed(NoCtx), !.roots = @ + 1,
                        !.exited = 0]
    /\ TraceUnchanged

\* with span(name): SpanManager(name) takes TraceContext.current() as the
\* parent, __enter__ makes the child context current.
SpanEnter ==
    /\ Len(tr.spans) < MaxSpans
    /\ LET parent == TraceContextCurrent
           ctx == TraceContextNew(parent, tr.ids)
       IN  tr' = [tr EXCEPT !.cur = ctx, !.ids = @ + IdsUsed(parent),
                            !.spans = Append(@, [ctx |-> ctx, before |-> tr.cur,
                                                 open |-> TRUE]),
                            !.exited = 0]
    /\ TraceUnchanged

OpenSpans == {k \in 1..Len(tr.spans) : tr.spans[k].open}
Innermost == CHOOSE k \in OpenSpans : \A j \in OpenSpans : j <= k

\* __exit__: span.end(), and nothing else
SpanExit ==
    /\ OpenSpans # {}
    /\ tr' = [tr EXCEPT !.spans[Innermost].open = FALSE, !.exited = Innermost]
    /\ TraceUnchanged

NextTrace == SetTraceContext \/ SpanEnter \/ SpanExit

\* C39 as stated: when a span has just exited, the current trace context is
\* the one that was current before that span was entered.
C39_AsClaimed ==
    tr.exited # 0 => tr.cur = tr.spans[tr.exited].before

\* The transcript worker with a memory write that can fail: one start, no
\* stop, no UI client.
NextWorker ==
    \/ StartOnce /\ UNCHANGED <<sideVars, audioVars, memVars>>
    \/ \E item \in Items : HandleTranscript(item) /\ UNCHANGED <<sideVars, audioVars, memVars>>
    \/ \E g \in Gens : WorkerStep(g) /\ UNCHANGED <<sideVars, audioVars, memVars>>
    \/ \E g \in Gens : WorkerWake(g) /\ UNCHANGED <<sideVars, audioVars, memVars>>
    \/ \E g \in Gens : WorkerRaise(g) /\ UNCHANGED <<sideVars, audioVars, memVars>>
    \/ \E g \in Gens : WorkerCaught(g) /\ UNCHANGED <<sideVars, audioVars, memVars>>

(***************************************************************************)
(* Specifications                                                          *)
(***************************************************************************)
Init == InitAudio /\ InitVad /\ InitMemory /\ InitAuto /\ InitMonitor /\ InitScreen
        /\ InitQuestion /\ InitRecent /\ InitFan /\ InitService
        /\ InitPool /\ InitHealth /\ InitDedup /\ InitTrace

SpecAudio == Init /\ [][NextAudio]_vars
SpecVad == Init /\ [][NextVad]_vars
SpecMemory == Init /\ [][NextMemory]_vars
SpecQuery == Init /\ [][NextQuery]_vars
SpecAuto == Init /\ [][NextAuto]_vars
SpecScreen == Init /\ [][NextScreen]_vars
\* The screen loop goes on: it captures the screen when it can take a new
\* image, and the OCR call it awaits returns.
SpecScreenLoop ==
    /\ Init /\ [][NextScreen]_vars
    /\ WF_vars(StartOnce /\ UNCHANGED <<sideVars, audioVars, memVars>>)
    /\ \A g \in Gens :
          /\ WF_vars(ScreenIter(g, screen) /\ UNCHANGED <<sideVars, audioVars, memVars>>)
          /\ WF_vars((\E text \in {OcrText(cur[g]), ""} : OcrDone(g, text))
                        /\ UNCHANGED <<sideVars, audioVars, memVars>>)
SpecMonitor == Init /\ [][NextMonitor]_vars
SpecDispatch == Init /\ [][NextDispatch]_vars
SpecQuestion == Init /\ [][NextQuestion]_vars
SpecPipeline == Init /\ [][NextPipeline]_vars
SpecRecent == Init /\ [][NextRecent]_vars
SpecService == Init /\ [][NextService]_vars
SpecHealth == Init /\ [][NextHealth]_vars
\* The event loop runs the worker whenever it can go on.
SpecWorker ==
    /\ Init /\ [][NextWorker]_vars
    /\ \A g \in Gens :
          /\ WF_vars(WorkerStep(g) /\ UNCHANGED <<sideVars, audioVars, memVars>>)
          /\ WF_vars((WorkerWake(g) \/ WorkerRaise(g))
                        /\ UNCHANGED <<sideVars, audioVars, memVars>>)
          /\ WF_vars(WorkerCaught(g) /\ UNCHANGED <<sideVars, audioVars, memVars>>)
SpecDedup == Init /\ [][NextDedup]_vars
SpecTrace == Init /\ [][NextTrace]_vars
\* Every caller that can take a step again and again does take one, and
\* the clock goes on.
SpecPool ==
    /\ Init /\ [][NextPool]_vars
    /\ \A t \in PoolThreads : SF_vars(PoolStep(t))
    /\ WF_vars(PoolClock)
\* The handler goes on whenever it can, a send that raises does so, and the
\* sends to the fast subscribers come to an end.
SpecFanout ==
    /\ Init /\ [][NextFanout]_vars
    /\ WF_vars(GatherBegin)
    /\ \A c \in Conns : WF_vars(SendFail(c))
    /\ \A c \in FastConns : WF_vars(SendDone(c))

====
